---- MODULE Spec2Model ----
(***************************************************************************)
(* A model of the wraps-js email SDK core:                                 *)
(*   - sendBatch (packages/email/src/batch.ts): entry validation and       *)
(*     resolution, 50-entry windows over the SES v2 bulk transport,        *)
(*     per-entry result accounting;                                        *)
(*   - WrapsEmailEvents (packages/email/src/events.ts): aggregation of the *)
(*     stored lifecycle events of one message into an EmailStatus.         *)
(* JavaScript arrays are 0-based, TLA+ sequences 1-based: position p of a  *)
(* sequence models array slot p - 1.  Fields named index keep the code's   *)
(* 0-based values.                                                         *)
(***************************************************************************)
EXTENDS Integers, Sequences, FiniteSets, Bags, TLC

VARIABLES
    \* ---- sendBatch activation (batch.ts) ----
    entries,      \* params.entries, as passed by the caller
    pc,           \* position of the sendBatch call
    resolved,     \* const resolved   (batch.ts:184)
    offset,       \* loop variable    (batch.ts:189)
    allResults,   \* const allResults (batch.ts:186)
    outcome,      \* what the promise settled with: a result or an error
    sesCalls,     \* the transport's log: ToAddresses of every command sent
    sesReplies,   \* the transport's log: how each command was answered
    \* ---- event store and events.get (events.ts) ----
    store,        \* items of one messageId in the event table (append-only)
    resp,         \* response.Items of the last query, in the returned order
    got,          \* what the last events.get() settled with
    prev,         \* what the caller saw of the get() before: status, event count
    \* ---- events.list (events.ts) ----
    listOpts,     \* options of the list() call
    listResp,     \* how the table answers the query of that call
    queries,      \* the table's log: ExclusiveStartKey of every query sent
    listed,       \* what the list() promise settled with
    \* ---- WrapsInbox forward / reply (inbox.ts) ----
    sesClient,    \* this.sesClient: "client" or "null"
    bucket,       \* how the bucket answers the reads of the stored message
    call,         \* the forward() / reply() call being followed
    s3Calls,      \* the bucket's log: Key of every GetObjectCommand sent
    sesSent,      \* the transport's log: every SendRawEmailCommand sent
    settled,      \* what the forward() / reply() promise settled with
    \* ---- buildRawEmailMessage (utils/mime.ts) ----
    params,       \* the BuildRawEmailParams passed
    entropy,      \* what Date.now() and Math.random() give to generateBoundary
    message,      \* what buildRawEmailMessage returned or threw
    \* ---- two sendBatch activations on one client (batch.ts) ----
    calls,        \* the locals of each activation: entries, pc, resolved, offset, outcome
    accum,        \* the allResults array of each activation (batch.ts:186)
    wire,         \* the client's log: which activation sent which command, and the answer
    \* ---- WrapsSMS.sendBatch (sms/src/client.ts) ----
    smsOptions,   \* the BatchOptions passed
    smsPc,        \* position of the sendBatch call
    smsIndex,     \* how many messages the loop has taken (client.ts:169)
    smsResults,   \* const results (client.ts:163)
    smsQueued,    \* let queued   (client.ts:164)
    smsFailed,    \* let failed   (client.ts:165)
    smsOutcome,   \* what the sendBatch promise settled with
    smsSends,     \* the log of this.send calls: the options of each
    smsWire       \* the transport's log: every SendTextMessageCommand sent

batchVars == <<entries, pc, resolved, offset, allResults, outcome, sesCalls, sesReplies>>
eventVars == <<store, resp, got, prev>>
listVars == <<listOpts, listResp, queries, listed>>
inboxVars == <<sesClient, bucket, call, s3Calls, sesSent, settled>>
mimeVars == <<params, entropy, message>>
pairVars == <<calls, accum, wire>>
smsVars == <<smsOptions, smsPc, smsIndex, smsResults, smsQueued, smsFailed, smsOutcome,
             smsSends, smsWire>>
vars == <<entries, pc, resolved, offset, allResults, outcome, sesCalls, sesReplies,
          store, resp, got, prev, listOpts, listResp, queries, listed,
          sesClient, bucket, call, s3Calls, sesSent, settled,
          params, entropy, message, calls, accum, wire,
          smsOptions, smsPc, smsIndex, smsResults, smsQueued, smsFailed, smsOutcome,
          smsSends, smsWire>>

\* The variables of the operations that are not being followed keep these
\* values.
ListIdle ==
    /\ listOpts = [state |-> "none"]
    /\ listResp = [state |-> "none"]
    /\ queries = <<>>
    /\ listed = [state |-> "none"]

InboxIdle ==
    /\ sesClient = "null"
    /\ bucket = [state |-> "none"]
    /\ call = [state |-> "none"]
    /\ s3Calls = <<>>
    /\ sesSent = <<>>
    /\ settled = [state |-> "none"]

MimeIdle ==
    /\ params = [state |-> "none"]
    /\ entropy = [state |-> "none"]
    /\ message = [state |-> "none"]

PairIdle ==
    /\ calls = <<>>
    /\ accum = <<>>
    /\ wire = <<>>

SmsIdle ==
    /\ smsOptions = [state |-> "none"]
    /\ smsPc = "idle"
    /\ smsIndex = 0
    /\ smsResults = <<>>
    /\ smsQueued = 0
    /\ smsFailed = 0
    /\ smsOutcome = [state |-> "none"]
    /\ smsSends = <<>>
    /\ smsWire = <<>>

\* JavaScript's undefined, for optional fields that are absent.
Undefined == "undefined"

(***************************************************************************)
(* Bounds of the model.                                                    *)
(***************************************************************************)
\* How many entries beyond MAX_ENTRIES a caller may pass.
MaxOver == 1
\* How many items one query response carries, at most.
MaxItems == 3
\* How many items the event table comes to hold for the message.
MaxStore == 2

(***************************************************************************)
(* Generic helpers.                                                        *)
(***************************************************************************)
Min(a, b) == IF a <= b THEN a ELSE b

\* Array.prototype.slice(from, to) on 0-based positions, end exclusive.
Slice(s, from, to) ==
    LET hi == Min(to, Len(s))
    IN  IF from >= hi THEN <<>> ELSE [k \in 1..(hi - from) |-> s[from + k]]

(***************************************************************************)
(* sendBatch: constants and inputs.                                        *)
(***************************************************************************)
MAX_ENTRIES == 100
CHUNK_SIZE == 50

\* A caller's entry.  A JavaScript falsy field (absent or '') is "" for the
\* strings and 0 for to.  The field to is the recipient, here the number
\* i >= 1 of the recipient's mailbox (user<i>@example.com); react is "none"
\* when no component is given, "ok" for a component that renders and
\* "throws" for one whose rendering fails.
HtmlEntry(i) ==
    [to |-> i, subject |-> "Hi", html |-> "<p>Hi</p>", text |-> "", react |-> "none"]

\* Entries that differ from HtmlEntry: the valid ones ...
OddValidEntries(i) ==
    { [to |-> i, subject |-> "Hi", html |-> "", text |-> "Hi", react |-> "none"],
      [to |-> i, subject |-> "Hi", html |-> "", text |-> "", react |-> "ok"],
      [to |-> i, subject |-> "Hi", html |-> "", text |-> "Hi", react |-> "ok"] }

\* ... and those resolveEntries refuses: no subject, no to, no content, both
\* html and react, a component that fails to render.
OddInvalidEntries(i) ==
    { [to |-> i, subject |-> "", html |-> "<p>Hi</p>", text |-> "", react |-> "none"],
      [to |-> 0, subject |-> "Hi", html |-> "<p>Hi</p>", text |-> "", react |-> "none"],
      [to |-> i, subject |-> "Hi", html |-> "", text |-> "", react |-> "none"],
      [to |-> i, subject |-> "Hi", html |-> "<p>Hi</p>", text |-> "", react |-> "ok"],
      [to |-> i, subject |-> "Hi", html |-> "", text |-> "", react |-> "throws"] }

\* The list of n entries that is HtmlEntry everywhere but e at place p.
ListWith(n, p, e) == [i \in 1..n |-> IF i = p THEN e ELSE HtmlEntry(i)]

\* The entry lists a caller passes: n entries, all HtmlEntry but at most one,
\* which is an odd valid entry in last place or an odd invalid entry in first
\* or last place.
EntryListsOfLen(n) ==
    { [i \in 1..n |-> HtmlEntry(i)] }
    \cup { ListWith(n, n, e) : e \in OddValidEntries(n) }
    \cup UNION { { ListWith(n, p, e) : e \in OddInvalidEntries(p) } : p \in {1, n} \cap (1..n) }

EntryLists == UNION { EntryListsOfLen(n) : n \in 0..(MAX_ENTRIES + MaxOver) }

(***************************************************************************)
(* resolveEntries (batch.ts:26-73).                                        *)
(***************************************************************************)
\* renderReactEmail (react.ts:6-34): the rendered bodies, or a thrown Error.
renderReactEmail(react) ==
    IF react = "ok"
    THEN [threw |-> FALSE, html |-> "<p>rendered react</p>", text |-> "rendered react"]
    ELSE [threw |-> TRUE, html |-> "", text |-> ""]

\* One iteration of the loop body for entry e: the error it throws ("none"
\* when it pushes a resolved entry).
ResolveError(e) ==
    IF e.subject = "" THEN "ValidationError"
    ELSE IF e.to = 0 THEN "ValidationError"
    ELSE IF e.html = "" /\ e.text = "" /\ e.react = "none" THEN "ValidationError"
    ELSE IF e.html # "" /\ e.react # "none" THEN "ValidationError"
    ELSE IF e.react # "none" /\ renderReactEmail(e.react).threw THEN "Error"
    ELSE "none"

\* The resolved entry pushed for a valid entry e (batch.ts:54-69).
ResolveOne(e) ==
    LET rendered == renderReactEmail(e.react)
        html == IF e.react # "none" THEN rendered.html ELSE e.html
        text == IF e.react # "none" /\ e.text = "" THEN rendered.text ELSE e.text
    IN  [to |-> e.to, subject |-> e.subject, html |-> html, text |-> text]

\* The loop of resolveEntries (batch.ts:29-72): the entries are taken in
\* order, the first one that fails throws its error and nothing after it is
\* looked at; if none fails every entry is resolved, in order.
ResolveLoop(es) ==
    LET failing == { i \in 1..Len(es) : ResolveError(es[i]) # "none" }
    IN  IF failing = {}
        THEN [threw |-> "none", resolved |-> [i \in 1..Len(es) |-> ResolveOne(es[i])]]
        ELSE LET first == CHOOSE i \in failing : \A k \in failing : i <= k
             IN  [threw |-> ResolveError(es[first]), resolved |-> <<>>]

\* resolveEntries that checks and renders the first window only and passes
\* the entries after it through.
resolveEntriesFirstWindow(es) ==
    LET head == ResolveLoop(Slice(es, 0, CHUNK_SIZE))
        tail == Slice(es, CHUNK_SIZE, Len(es))
    IN  IF head.threw # "none" THEN head
        ELSE [threw |-> "none",
              resolved |-> head.resolved \o
                  [k \in 1..Len(tail) |->
                      [to |-> tail[k].to, subject |-> tail[k].subject,
                       html |-> tail[k].html, text |-> tail[k].text]]]

resolveEntries(es) == ResolveLoop(es)

(***************************************************************************)
(* The SES v2 bulk transport, as sendChunk sees it.                        *)
(***************************************************************************)
\* How the provider answers one SendBulkEmailCommand of n entries:
\*   "sdk_error"   send() rejects with an AWS SDK error (it has $metadata),
\*                 such as TooManyRequestsException;
\*   "plain_error" send() rejects with an error that has no $metadata;
\*   "missing"     the response has no BulkEmailEntryResults;
\*   "ok"          the response lists len outcomes, each SUCCESS or FAILED
\*                 as the pattern says.
\* The provider's contract is len = n; a response one short or one long is
\* what a provider that breaks it returns.
Replies(n) ==
    { [kind |-> k, len |-> 0, pattern |-> "none"] :
          k \in {"sdk_error", "plain_error", "missing"} }
    \cup { [kind |-> "ok", len |-> l, pattern |-> p] :
          l \in {n - 1, n, n + 1}, p \in {"success", "alternate"} }
    \cup { [kind |-> "ok", len |-> n, pattern |-> "failed"] }

\* BulkEmailEntryResults[i] (0-based i) of an "ok" reply.
ProviderOutcome(reply, i) ==
    IF reply.pattern = "success" \/ (reply.pattern = "alternate" /\ i % 2 = 0)
    THEN [Status |-> "SUCCESS", MessageId |-> "msg", Error |-> Undefined]
    ELSE [Status |-> "FAILED", MessageId |-> Undefined, Error |-> "Address blacklisted"]

\* handleSESv2Error (batch.ts:141-157): the error sendChunk rethrows.
handleSESv2Error(kind) ==
    IF kind = "sdk_error" THEN "SESError" ELSE "Error"

\* sendChunk that passes the provider's Status through.
sendChunkRawStatus(chunk, startIndex, reply) ==
    IF reply.kind = "ok"
    THEN [threw |-> "none",
          results |-> [k \in 1..reply.len |->
                         LET r == ProviderOutcome(reply, k - 1)
                         IN  [index |-> startIndex + (k - 1),
                              messageId |-> r.MessageId,
                              status |-> r.Status,
                              error |-> r.Error]]]
    ELSE [threw |-> handleSESv2Error(reply.kind), results |-> <<>>]

\* sendChunk (batch.ts:78-139), given the provider's reply to its command:
\* the results it returns, or the error it throws.
sendChunk(chunk, startIndex, reply) ==
    IF reply.kind = "ok"
    THEN [threw |-> "none",
          results |-> [k \in 1..reply.len |->
                         LET r == ProviderOutcome(reply, k - 1)
                         IN  [index |-> startIndex + (k - 1),
                              messageId |-> r.MessageId,
                              status |-> IF r.Status = "SUCCESS" THEN "success" ELSE "failure",
                              error |-> r.Error]]]
    ELSE [threw |-> handleSESv2Error(reply.kind), results |-> <<>>]

\* ChunkFailure that records one failure for the whole chunk.
ChunkFailureOnce(chunk, off) ==
    << [index |-> off, messageId |-> Undefined, status |-> "failure",
        error |-> "Chunk-level SES error"] >>

\* The catch block of sendBatch (batch.ts:195-204): one record per entry of
\* the chunk.
ChunkFailure(chunk, off) ==
    [k \in 1..Len(chunk) |->
        [index |-> off + (k - 1), messageId |-> Undefined, status |-> "failure",
         error |-> "Chunk-level SES error"]]

\* ChunkResults whose catch handles SESError only and rethrows the rest.
ChunkResultsRethrow(chunk, off, reply) ==
    LET r == sendChunk(chunk, off, reply)
    IN  IF r.threw = "none"
        THEN [rejects |-> "none", pushed |-> r.results]
        ELSE IF r.threw = "SESError"
        THEN [rejects |-> "none", pushed |-> ChunkFailure(chunk, off)]
        ELSE [rejects |-> r.threw, pushed |-> <<>>]

\* The try/catch around sendChunk (batch.ts:192-204): what is pushed onto
\* allResults for the chunk at off; rejects is the error that escapes the
\* loop ("none": nothing escapes).
ChunkResults(chunk, off, reply) ==
    LET r == sendChunk(chunk, off, reply)
    IN  IF r.threw = "none"
        THEN [rejects |-> "none", pushed |-> r.results]
        ELSE [rejects |-> "none", pushed |-> ChunkFailure(chunk, off)]

(***************************************************************************)
(* sendBatch (batch.ts:169-215), step by step.                             *)
(***************************************************************************)
Pending == [state |-> "pending"]
Rejected(err) == [state |-> "rejected", error |-> err]

\* EntryCountError without the upper cap.
EntryCountErrorNoCap(es) ==
    IF Len(es) = 0 THEN "ValidationError" ELSE "none"

\* The entry-count checks (batch.ts:173-182): the error thrown, or "none".
EntryCountError(es) ==
    IF Len(es) = 0 THEN "ValidationError"
    ELSE IF Len(es) > MAX_ENTRIES THEN "ValidationError"
    ELSE "none"

\* The loop's increment (batch.ts:189).
NextOffset(off) == off + CHUNK_SIZE

\* The value sendBatch returns (batch.ts:207-214).
BatchResult(results) ==
    [state |-> "fulfilled",
     results |-> results,
     successCount |-> Cardinality({k \in 1..Len(results) : results[k].status = "success"}),
     failureCount |-> Cardinality({k \in 1..Len(results) : results[k].status = "failure"})]

\* Chunk with an inclusive end: windows of CHUNK_SIZE + 1 that overlap.
ChunkInclusiveEnd == Slice(resolved, offset, offset + CHUNK_SIZE + 1)

\* const chunk = resolved.slice(offset, offset + CHUNK_SIZE)  (batch.ts:190)
Chunk == Slice(resolved, offset, offset + CHUNK_SIZE)

\* sendBatch up to its loop: the count checks, then resolveEntries over all
\* entries (batch.ts:173-186).
Validate ==
    /\ pc = "start"
    /\ LET countError == EntryCountError(entries)
           r == resolveEntries(entries)
       IN  IF countError # "none"
           THEN /\ pc' = "done"
                /\ outcome' = Rejected(countError)
                /\ UNCHANGED resolved
           ELSE IF r.threw # "none"
           THEN /\ pc' = "done"
                /\ outcome' = Rejected(r.threw)
                /\ UNCHANGED resolved
           ELSE /\ pc' = "loop"
                /\ resolved' = r.resolved
                /\ UNCHANGED outcome
    /\ offset' = 0
    /\ allResults' = <<>>
    /\ UNCHANGED <<entries, sesCalls, sesReplies>>
    /\ UNCHANGED <<eventVars, listVars, inboxVars, mimeVars, pairVars, smsVars>>

\* SendCommand that does not wait for the answer: the loop goes on to the
\* next chunk at once.
SendCommandParallel ==
    /\ pc = "loop"
    /\ offset < Len(resolved)
    /\ sesCalls' = Append(sesCalls, [k \in 1..Len(Chunk) |-> Chunk[k].to])
    /\ offset' = NextOffset(offset)
    /\ UNCHANGED <<entries, pc, resolved, allResults, outcome, sesReplies>>
    /\ UNCHANGED <<eventVars, listVars, inboxVars, mimeVars, pairVars, smsVars>>

\* sendChunk builds its command and hands it to the transport
\* (batch.ts:84-121); the call is then awaited.
SendCommand ==
    /\ pc = "loop"
    /\ offset < Len(resolved)
    /\ sesCalls' = Append(sesCalls, [k \in 1..Len(Chunk) |-> Chunk[k].to])
    /\ pc' = "awaiting"
    /\ UNCHANGED <<entries, resolved, offset, allResults, outcome, sesReplies>>
    /\ UNCHANGED <<eventVars, listVars, inboxVars, mimeVars, pairVars, smsVars>>

\* The transport answers; sendChunk maps the answer or throws, sendBatch
\* pushes the chunk's results and moves to the next chunk (batch.ts:121-205).
Settle ==
    /\ pc = "awaiting"
    /\ \E reply \in Replies(Len(Chunk)) :
          LET r == ChunkResults(Chunk, offset, reply)
          IN  /\ sesReplies' = Append(sesReplies, reply)
              /\ IF r.rejects # "none"
                 THEN /\ pc' = "done"
                      /\ outcome' = Rejected(r.rejects)
                      /\ UNCHANGED <<allResults, offset>>
                 ELSE /\ pc' = "loop"
                      /\ allResults' = allResults \o r.pushed
                      /\ offset' = NextOffset(offset)
                      /\ UNCHANGED outcome
    /\ UNCHANGED <<entries, resolved, sesCalls>>
    /\ UNCHANGED <<eventVars, listVars, inboxVars, mimeVars, pairVars, smsVars>>

\* The loop is over: count and return (batch.ts:207-214).
Return ==
    /\ pc = "loop"
    /\ offset >= Len(resolved)
    /\ outcome' = BatchResult(allResults)
    /\ pc' = "done"
    /\ UNCHANGED <<entries, resolved, offset, allResults, sesCalls, sesReplies>>
    /\ UNCHANGED <<eventVars, listVars, inboxVars, mimeVars, pairVars, smsVars>>

NoCall == [state |-> "none"]

EventsIdle ==
    /\ store = EmptyBag
    /\ resp = <<>>
    /\ got = NoCall
    /\ prev = NoCall

InitBatch ==
    /\ entries \in EntryLists
    /\ pc = "start"
    /\ resolved = <<>>
    /\ offset = 0
    /\ allResults = <<>>
    /\ outcome = Pending
    /\ sesCalls = <<>>
    /\ sesReplies = <<>>
    /\ EventsIdle
    /\ ListIdle
    /\ InboxIdle
    /\ MimeIdle
    /\ PairIdle
    /\ SmsIdle

NextBatch == Validate \/ SendCommand \/ Settle \/ Return

SpecBatch == InitBatch /\ [][NextBatch]_vars

\* The transport settles every call it was handed, and the event loop runs
\* every continuation that is ready: each step of sendBatch that can be
\* taken is taken.
FairSpecBatch == SpecBatch /\ WF_vars(NextBatch)

(***************************************************************************)
(* Claims about sendBatch.                                                 *)
(***************************************************************************)
\* The entries' 0-based indices that window w (1-based) of n entries covers.
WindowIndices(w, n) == { i \in 0..(n - 1) : i \div 50 = w - 1 }

\* The count checks and the resolution of all entries have succeeded.
Dispatching == resolved # <<>>

\* A record of the catch block: failure, no messageId, the fixed text.
IsChunkLevelRecord(r) ==
    r.status = "failure" /\ r.messageId = Undefined /\ r.error = "Chunk-level SES error"

\* C1: whenever sendBatch returns a result, results has one element per
\* input entry and results[i].index = i, whatever the transport returned
\* (a response shorter or longer than its window included).
C1_ResultsMatchEntries ==
    outcome.state = "fulfilled" =>
        /\ Len(outcome.results) = Len(entries)
        /\ \A p \in 1..Len(outcome.results) : outcome.results[p].index = p - 1

\* C2: sendBatch on n valid entries, 1 <= n <= 100, has issued exactly
\* ceil(n/50) transport calls when it ends, call w carrying exactly the
\* entries of window w, in order (one call per window, none repeated),
\* whichever calls failed; and never more calls than that on the way.
C2_OneCallPerWindow ==
    Dispatching =>
        LET n == Len(entries)
            windows == (n + 49) \div 50
        IN  /\ Len(sesCalls) <= windows
            /\ \A w \in 1..Len(sesCalls) :
                 /\ Len(sesCalls[w]) = Cardinality(WindowIndices(w, n))
                 /\ \A k \in 1..Len(sesCalls[w]) :
                      sesCalls[w][k] = entries[(w - 1) * 50 + k].to
            /\ (pc = "done" => Len(sesCalls) = windows)

C2_Witness ==
    /\ pc = "done"
    /\ Len(entries) = 75
    /\ Len(sesCalls) = 2
    /\ sesReplies[1].kind = "sdk_error"
    /\ sesReplies[2].kind = "ok"

\* C3: in a returned result, the indices that carry a chunk-level failure
\* record (failure, no messageId, 'Chunk-level SES error') are exactly the
\* entries of the windows whose transport call failed, one record each; two
\* entries whose single window is throttled give successCount 0 and
\* failureCount 2 with the same message on both results.
C3_ChunkFailureRecords ==
    outcome.state = "fulfilled" =>
        LET n == Len(entries)
            res == outcome.results
            failedIdx == UNION { WindowIndices(w, n) :
                                   w \in { v \in 1..Len(sesReplies) : sesReplies[v].kind # "ok" } }
            recs == { p \in 1..Len(res) : IsChunkLevelRecord(res[p]) }
        IN  /\ { res[p].index : p \in recs } = failedIdx
            /\ Cardinality(recs) = Cardinality(failedIdx)
            /\ (n = 2 /\ sesReplies[1].kind # "ok") =>
                  /\ outcome.successCount = 0
                  /\ outcome.failureCount = 2
                  /\ Len(res) = 2
                  /\ res[1].error = "Chunk-level SES error"
                  /\ res[2].error = res[1].error

C3_Witness ==
    /\ outcome.state = "fulfilled"
    /\ Len(entries) = 2
    /\ sesReplies[1].kind = "sdk_error"
    /\ outcome.failureCount = 2

\* C4: sendBatch called with more than 100 entries, or with none, rejects
\* with a ValidationError and issues no transport call at any point.
C4_CountRejectedNoDispatch ==
    (Len(entries) = 0 \/ Len(entries) > 100) =>
        /\ sesCalls = <<>>
        /\ pc \in {"start", "done"}
        /\ (pc = "done" => outcome = Rejected("ValidationError"))

C4_Witness ==
    /\ pc = "done"
    /\ Len(entries) = 101
    /\ outcome.state = "rejected"

\* An entry sendBatch must refuse: no subject, no to, no content, both html
\* and react, or a component whose rendering fails.
EntryUnacceptable(e) ==
    \/ e.subject = ""
    \/ e.to = 0
    \/ (e.html = "" /\ e.text = "" /\ e.react = "none")
    \/ (e.html # "" /\ e.react # "none")
    \/ e.react = "throws"

\* C5: if any entry fails validation or its React rendering fails, sendBatch
\* rejects and no transport call is ever issued, also when the failing entry
\* comes after a full window of valid entries.
C5_FailFastBeforeDispatch ==
    (\E i \in 1..Len(entries) : EntryUnacceptable(entries[i])) =>
        /\ sesCalls = <<>>
        /\ pc \in {"start", "done"}
        /\ (pc = "done" => outcome.state = "rejected")

C5_Witness ==
    /\ pc = "done"
    /\ outcome.state = "rejected"
    /\ Len(entries) \in 51..100
    /\ EntryUnacceptable(entries[Len(entries)])
    /\ \A i \in 1..50 : ~EntryUnacceptable(entries[i])

\* C6: once the count checks and entry resolution have succeeded, sendBatch
\* never rejects and, every transport call being answered, ends by
\* resolving with a result object, whatever the answers were.
C6_AlwaysResolves ==
    /\ [](Dispatching => outcome.state # "rejected")
    /\ [](Dispatching => <>(pc = "done" /\ outcome.state = "fulfilled"))

C6_Witness ==
    /\ pc = "done"
    /\ outcome.state = "fulfilled"
    /\ Len(sesReplies) = 2
    /\ sesReplies[1].kind = "plain_error"
    /\ sesReplies[2].kind = "missing"

(***************************************************************************)
(* Event aggregation (events.ts).  Event type and status strings are        *)
(* sequences of characters, so that toLowerCase is computed.                *)
(***************************************************************************)
UpperLetters ==
    << "A", "B", "C", "D", "E", "F", "G", "H", "I", "J", "K", "L", "M",
       "N", "O", "P", "Q", "R", "S", "T", "U", "V", "W", "X", "Y", "Z" >>
LowerLetters ==
    << "a", "b", "c", "d", "e", "f", "g", "h", "i", "j", "k", "l", "m",
       "n", "o", "p", "q", "r", "s", "t", "u", "v", "w", "x", "y", "z" >>

\* String.prototype.toLowerCase
toLowerCase(str) ==
    [k \in 1..Len(str) |->
        IF \E u \in 1..26 : UpperLetters[u] = str[k]
        THEN LowerLetters[CHOOSE u \in 1..26 : UpperLetters[u] = str[k]]
        ELSE str[k]]

\* The status strings (types.ts, EmailStatus['status']).
sent == << "s", "e", "n", "t" >>
delivered == << "d", "e", "l", "i", "v", "e", "r", "e", "d" >>
opened == << "o", "p", "e", "n", "e", "d" >>
clicked == << "c", "l", "i", "c", "k", "e", "d" >>
suppressed == << "s", "u", "p", "p", "r", "e", "s", "s", "e", "d" >>
complained == << "c", "o", "m", "p", "l", "a", "i", "n", "e", "d" >>
bounced == << "b", "o", "u", "n", "c", "e", "d" >>

\* const EVENT_TYPE_MAP (events.ts:6-14)
EVENT_TYPE_MAP ==
    ( << "s", "e", "n", "d" >> :> sent ) @@
    ( << "d", "e", "l", "i", "v", "e", "r", "y" >> :> delivered ) @@
    ( << "o", "p", "e", "n" >> :> opened ) @@
    ( << "c", "l", "i", "c", "k" >> :> clicked ) @@
    ( << "b", "o", "u", "n", "c", "e" >> :> bounced ) @@
    ( << "c", "o", "m", "p", "l", "a", "i", "n", "t" >> :> complained ) @@
    ( suppressed :> suppressed )

\* STATUS_PRIORITY with the priorities of complained and bounced exchanged.
STATUS_PRIORITY_Swapped ==
    ( sent :> 3 ) @@ ( delivered :> 4 ) @@ ( opened :> 5 ) @@ ( clicked :> 6 ) @@
    ( suppressed :> 7 ) @@ ( complained :> 9 ) @@ ( bounced :> 8 )

\* const STATUS_PRIORITY (events.ts:16-24)
STATUS_PRIORITY ==
    ( sent :> 3 ) @@ ( delivered :> 4 ) @@ ( opened :> 5 ) @@ ( clicked :> 6 ) @@
    ( suppressed :> 7 ) @@ ( complained :> 8 ) @@ ( bounced :> 9 )

\* EVENT_TYPE_MAP[normalized] || normalized  (events.ts:32)
MappedType(normalized) ==
    IF normalized \in DOMAIN EVENT_TYPE_MAP THEN EVENT_TYPE_MAP[normalized] ELSE normalized

\* STATUS_PRIORITY[mapped] || 0  (events.ts:33)
Priority(mapped) ==
    IF mapped \in DOMAIN STATUS_PRIORITY THEN STATUS_PRIORITY[mapped] ELSE 0

\* The loop of deriveStatus (events.ts:30-38) from event k on, with the
\* highest status and priority found so far.
RECURSIVE DeriveFrom(_, _, _, _)
DeriveFrom(events, k, highest, highestPriority) ==
    IF k > Len(events) THEN highest
    ELSE LET mapped == MappedType(toLowerCase(events[k].type))
             priority == Priority(mapped)
         IN  IF priority > highestPriority
             THEN DeriveFrom(events, k + 1, mapped, priority)
             ELSE DeriveFrom(events, k + 1, highest, highestPriority)

\* deriveStatus that lets the last recognised event win (status by recency).
deriveStatusLatest(events) ==
    LET known == { k \in 1..Len(events) :
                     Priority(MappedType(toLowerCase(events[k].type))) > 0 }
    IN  IF known = {} THEN sent
        ELSE MappedType(toLowerCase(
                 events[CHOOSE k \in known : \A j \in known : j <= k].type))

\* deriveStatus (events.ts:26-41)
deriveStatus(events) == DeriveFrom(events, 1, sent, STATUS_PRIORITY[sent])

\* JSON.parse on the additionalData texts of the model: the parsed value
\* (written as the object it denotes), or a SyntaxError.
JsonParse(text) ==
    IF text = "{\"source\":\"ses\"}" THEN [threw |-> FALSE, value |-> "object {source: ses}"]
    ELSE IF text = "{}" THEN [threw |-> FALSE, value |-> "object {}"]
    ELSE [threw |-> TRUE, value |-> Undefined]

\* EventOfItem whose catch keeps the unparsed text as the metadata.
EventOfItemRawFallback(item) ==
    [type |-> toLowerCase(item.eventType),
     timestamp |-> item.sentAt,
     metadata |-> IF item.additionalData # Undefined /\ item.additionalData # ""
                  THEN (IF JsonParse(item.additionalData).threw
                        THEN item.additionalData
                        ELSE JsonParse(item.additionalData).value)
                  ELSE Undefined]

\* The map callback of aggregateStatus (events.ts:164-179).
EventOfItem(item) ==
    [type |-> toLowerCase(item.eventType),
     timestamp |-> item.sentAt,
     metadata |-> IF item.additionalData # Undefined /\ item.additionalData # ""
                  THEN (IF JsonParse(item.additionalData).threw
                        THEN Undefined
                        ELSE JsonParse(item.additionalData).value)
                  ELSE Undefined]

\* Array.prototype.sort((a, b) => a.timestamp - b.timestamp), which is
\* stable: e is put after every event whose timestamp is not greater.
InsertByTimestamp(sorted, e) ==
    LET before == { k \in 1..Len(sorted) : sorted[k].timestamp <= e.timestamp }
        n == Cardinality(before)
    IN  [k \in 1..(Len(sorted) + 1) |->
            IF k <= n THEN sorted[k]
            ELSE IF k = n + 1 THEN e
            ELSE sorted[k - 1]]

RECURSIVE SortFrom(_, _, _)
SortFrom(events, k, sorted) ==
    IF k > Len(events) THEN sorted
    ELSE SortFrom(events, k + 1, InsertByTimestamp(sorted, events[k]))

\* The events in the order the items came in: no sort.
SortByTimestampNot(events) == events

SortByTimestamp(events) == SortFrom(events, 1, <<>>)

\* items.map(...)  (events.ts:164-179)
EventsOfItems(items) == [k \in 1..Len(items) |-> EventOfItem(items[k])]

\* aggregateStatus (events.ts:161-196), for a non-empty item list.
aggregateStatus(items) ==
    LET first == items[1]
        events == SortByTimestamp(EventsOfItems(items))
    IN  [state |-> "status",
         messageId |-> first.messageId,
         from |-> first.from,
         to |-> first.to,
         subject |-> first.subject,
         status |-> deriveStatus(events),
         sentAt |-> events[1].timestamp,
         lastEventAt |-> events[Len(events)].timestamp,
         events |-> events]

(***************************************************************************)
(* The event table and events.get (events.ts:53-78).                       *)
(***************************************************************************)
\* Event types as the table stores them: the seven SES event names, an
\* upper-case spelling, a status name used as a type, and a type the SDK
\* does not know.
T_Send == << "S", "e", "n", "d" >>
T_Delivery == << "D", "e", "l", "i", "v", "e", "r", "y" >>
T_Open == << "O", "p", "e", "n" >>
T_Click == << "C", "l", "i", "c", "k" >>
T_Bounce == << "B", "o", "u", "n", "c", "e" >>
T_Complaint == << "C", "o", "m", "p", "l", "a", "i", "n", "t" >>
T_Suppressed == << "S", "u", "p", "p", "r", "e", "s", "s", "e", "d" >>
T_OPEN == << "O", "P", "E", "N" >>
T_Bounced == << "B", "o", "u", "n", "c", "e", "d" >>
T_Reject == << "R", "e", "j", "e", "c", "t" >>

EventTypes ==
    { T_Send, T_Delivery, T_Open, T_Click, T_Bounce, T_Complaint, T_Suppressed,
      T_OPEN, T_Bounced, T_Reject }

\* An item of the table for the one message followed here.  to is stored as
\* an array, so aggregateStatus takes it as it is (events.ts:184).
Item(type, t, data) ==
    [messageId |-> "msg-1", from |-> "sender@example.com",
     to |-> << "user@example.com" >>, subject |-> "Hello",
     eventType |-> type, sentAt |-> t, additionalData |-> data]

\* The items the pipeline may have written: every event type once, at time
\* 2 and without additionalData; and opens and bounces at times 1 and 3
\* with additionalData that parses and that does not.
Items ==
    { Item(t, 2, Undefined) : t \in EventTypes }
    \cup { Item(t, ts, d) : t \in {T_Open, T_Bounce}, ts \in {1, 3},
                            d \in {"{\"source\":\"ses\"}", "not-json"} }

\* The items written while a caller polls get(): every event type once, at
\* time 2; a bounce at time 1 and an open at time 3.
StoreItems ==
    { Item(t, 2, Undefined) : t \in EventTypes }
    \cup { Item(T_Bounce, 1, "not-json"), Item(T_Open, 3, "{\"source\":\"ses\"}") }

\* The sequences over S of length lo..hi.
SeqsOf(S, lo, hi) == UNION { [1..n -> S] : n \in lo..hi }

\* Every order in which a query may return the items of bag B.
Orders(B) ==
    { s \in [1..BagCardinality(B) -> BagToSet(B)] :
        \A e \in BagToSet(B) : Cardinality({k \in DOMAIN s : s[k] = e}) = CopiesIn(e, B) }

\* handleDynamoDBError (events.ts:198-214) on an AWS SDK error.
handleDynamoDBError(kind) ==
    IF kind = "sdk_error" THEN "DynamoDBError" ELSE "Error"

\* What get() resolves with for a query response carrying items
\* (events.ts:70-74).
GetResult(items) ==
    IF Len(items) = 0 THEN [state |-> "null"] ELSE aggregateStatus(items)

\* What the caller keeps of a settled get(): the status and event count of
\* the last EmailStatus it was given.
Seen(g, before) ==
    IF g.state = "status"
    THEN [state |-> "seen", status |-> g.status, n |-> Len(g.events)]
    ELSE before

\* The ingestion pipeline writes one more item for the message; nothing is
\* ever removed or rewritten (append-only table).
PutItem ==
    /\ pc = "idle"
    /\ BagCardinality(store) < MaxStore
    /\ \E item \in StoreItems : store' = store (+) SetToBag({item})
    /\ UNCHANGED <<resp, got, prev>>
    /\ UNCHANGED <<batchVars, listVars, inboxVars, mimeVars, pairVars, smsVars>>

\* events.get(messageId) with a messageId, the query answered with the
\* message's items in some order (events.ts:58-74).
Get ==
    /\ pc = "idle"
    /\ \E items \in Orders(store) :
          /\ resp' = items
          /\ got' = GetResult(items)
    /\ prev' = Seen(got, prev)
    /\ UNCHANGED store
    /\ UNCHANGED <<batchVars, listVars, inboxVars, mimeVars, pairVars, smsVars>>

\* events.get(messageId) whose query fails (events.ts:75-77).
GetFails ==
    /\ pc = "idle"
    /\ \E kind \in {"sdk_error", "plain_error"} :
          got' = Rejected(handleDynamoDBError(kind))
    /\ prev' = Seen(got, prev)
    /\ UNCHANGED <<store, resp>>
    /\ UNCHANGED <<batchVars, listVars, inboxVars, mimeVars, pairVars, smsVars>>

\* events.get('') : rejected before any query (events.ts:54-56).
GetWithoutId ==
    /\ pc = "idle"
    /\ got' = Rejected("ValidationError")
    /\ prev' = Seen(got, prev)
    /\ UNCHANGED <<store, resp>>
    /\ UNCHANGED <<batchVars, listVars, inboxVars, mimeVars, pairVars, smsVars>>

BatchIdle ==
    /\ entries = <<>>
    /\ pc = "idle"
    /\ resolved = <<>>
    /\ offset = 0
    /\ allResults = <<>>
    /\ outcome = Pending
    /\ sesCalls = <<>>
    /\ sesReplies = <<>>

InitEvents ==
    /\ BatchIdle
    /\ EventsIdle
    /\ ListIdle
    /\ InboxIdle
    /\ MimeIdle
    /\ PairIdle
    /\ SmsIdle

NextEvents == PutItem \/ Get \/ GetFails \/ GetWithoutId

\* The table grows while the caller polls events.get.
SpecEvents == InitEvents /\ [][NextEvents]_vars

\* events.get over one query response of up to MaxItems items, in any order
\* and with any mix of types, times and additionalData.
InitAggregate ==
    /\ BatchIdle
    /\ store = EmptyBag
    /\ resp \in SeqsOf(Items, 0, MaxItems)
    /\ got = NoCall
    /\ prev = NoCall
    /\ ListIdle
    /\ InboxIdle
    /\ MimeIdle
    /\ PairIdle
    /\ SmsIdle

GetResolves ==
    /\ pc = "idle"
    /\ got = NoCall
    /\ got' = GetResult(resp)
    /\ UNCHANGED <<store, resp, prev>>
    /\ UNCHANGED <<batchVars, listVars, inboxVars, mimeVars, pairVars, smsVars>>

NextAggregate == GetResolves

SpecAggregate == InitAggregate /\ [][NextAggregate]_vars

(***************************************************************************)
(* Claims about event aggregation.                                         *)
(***************************************************************************)
\* Severity, ascending: sent < delivered < opened < clicked < suppressed <
\* complained < bounced.
Severity == << sent, delivered, opened, clicked, suppressed, complained, bounced >>

\* The severity rank (1..7) of a status string; 0 if it is no status.
RankOfStatus(st) ==
    IF \E r \in 1..7 : Severity[r] = st
    THEN CHOOSE r \in 1..7 : Severity[r] = st
    ELSE 0

\* The status a stored event type stands for, letter case set aside; for a
\* type that stands for none, the string none.
none == << "n", "o", "n", "e" >>
StatusOfType(t) ==
    IF t = T_Send THEN sent
    ELSE IF t = T_Delivery THEN delivered
    ELSE IF t \in {T_Open, T_OPEN} THEN opened
    ELSE IF t = T_Click THEN clicked
    ELSE IF t = T_Suppressed THEN suppressed
    ELSE IF t = T_Complaint THEN complained
    ELSE IF t \in {T_Bounce, T_Bounced} THEN bounced
    ELSE none

\* The stored event type in lower case, spelled out per type.
LowerOfType(t) ==
    IF t = T_Send THEN << "s", "e", "n", "d" >>
    ELSE IF t = T_Delivery THEN << "d", "e", "l", "i", "v", "e", "r", "y" >>
    ELSE IF t \in {T_Open, T_OPEN} THEN << "o", "p", "e", "n" >>
    ELSE IF t = T_Click THEN << "c", "l", "i", "c", "k" >>
    ELSE IF t = T_Suppressed THEN suppressed
    ELSE IF t = T_Complaint THEN << "c", "o", "m", "p", "l", "a", "i", "n", "t" >>
    ELSE IF t = T_Bounce THEN << "b", "o", "u", "n", "c", "e" >>
    ELSE IF t = T_Bounced THEN bounced
    ELSE << "r", "e", "j", "e", "c", "t" >>

MaxOf(S) == CHOOSE x \in S : \A y \in S : y <= x
MinOf(S) == CHOOSE x \in S : \A y \in S : x <= y

C9_EventsAscending ==
    got.state = "status" =>
        LET times == { resp[k].sentAt : k \in 1..Len(resp) }
        IN  /\ \A k \in 1..(Len(got.events) - 1) :
                   got.events[k].timestamp <= got.events[k + 1].timestamp
            /\ got.sentAt = MinOf(times)
            /\ got.lastEventAt = MaxOf(times)

\* Three items returned latest first.
C9_Witness ==
    /\ got.state = "status"
    /\ Len(resp) = 3
    /\ resp[1].sentAt = 3 /\ resp[2].sentAt = 2 /\ resp[3].sentAt = 1
    /\ got.sentAt = 1 /\ got.lastEventAt = 3

\* The metadata of the event of an item, as the claim has it: undefined for
\* additionalData that is absent or does not parse.
MetadataKept(item) ==
    IF item.additionalData = "{\"source\":\"ses\"}" THEN "object {source: ses}" ELSE Undefined

\* C10: the returned events are the items' events, one per item and none
\* dropped: for every type, timestamp and metadata, as many events as items
\* that give them; an item whose additionalData does not parse gives an
\* event with its (lower-case) type, its timestamp and undefined metadata.
C10_OneEventPerItem ==
    got.state = "status" =>
        /\ Len(got.events) = Len(resp)
        /\ \A k \in 1..Len(resp) :
              LET want == [type |-> LowerOfType(resp[k].eventType),
                           timestamp |-> resp[k].sentAt,
                           metadata |-> MetadataKept(resp[k])]
              IN  Cardinality({ e \in 1..Len(got.events) : got.events[e] = want })
                  = Cardinality({ i \in 1..Len(resp) :
                        /\ LowerOfType(resp[i].eventType) = want.type
                        /\ resp[i].sentAt = want.timestamp
                        /\ MetadataKept(resp[i]) = want.metadata })

\* An item with unparseable additionalData among parseable ones.
C10_Witness ==
    /\ got.state = "status"
    /\ Len(resp) = 3
    /\ resp[1].additionalData = "not-json"
    /\ resp[2].additionalData = "{\"source\":\"ses\"}"
    /\ resp[3].additionalData = Undefined
    /\ \E e \in 1..3 : got.events[e].metadata = "object {source: ses}"

(***************************************************************************)
(* Text.  A JavaScript string is a sequence of one-character strings; a    *)
(* Buffer is a sequence of bytes 0..255.                                   *)
(***************************************************************************)
\* The printable ASCII characters, code 32 first (the grave accent, code 96,
\* is written by its code point).
AsciiPrintable ==
    << " ", "!", "\"", "#", "$", "%", "&", "'", "(", ")", "*", "+", ",",
       "-", ".", "/", "0", "1", "2", "3", "4", "5", "6", "7", "8", "9",
       ":", ";", "<", "=", ">", "?", "@", "A", "B", "C", "D", "E", "F",
       "G", "H", "I", "J", "K", "L", "M", "N", "O", "P", "Q", "R", "S",
       "T", "U", "V", "W", "X", "Y", "Z", "[", "\\", "]", "^", "_", "U+0060",
       "a", "b", "c", "d", "e", "f", "g", "h", "i", "j", "k", "l", "m",
       "n", "o", "p", "q", "r", "s", "t", "u", "v", "w", "x", "y", "z",
       "{", "|", "}", "~" >>

\* What a byte sequence that is not UTF-8 text decodes to (U+FFFD).
ReplacementChar == "U+FFFD"

\* One byte as Buffer.toString('utf-8') renders it.  The model's buffers
\* hold single-byte characters and stray bytes only.
CharOfByte(b) ==
    IF b >= 32 /\ b <= 126 THEN AsciiPrintable[b - 31]
    ELSE IF b = 13 THEN "\r"
    ELSE IF b = 10 THEN "\n"
    ELSE ReplacementChar

\* Buffer.prototype.toString('utf-8')
Utf8ToString(bytes) == [k \in 1..Len(bytes) |-> CharOfByte(bytes[k])]

\* The base64 alphabet, value 0 first.
Base64Alphabet ==
    << "A", "B", "C", "D", "E", "F", "G", "H", "I", "J", "K", "L", "M",
       "N", "O", "P", "Q", "R", "S", "T", "U", "V", "W", "X", "Y", "Z",
       "a", "b", "c", "d", "e", "f", "g", "h", "i", "j", "k", "l", "m",
       "n", "o", "p", "q", "r", "s", "t", "u", "v", "w", "x", "y", "z",
       "0", "1", "2", "3", "4", "5", "6", "7", "8", "9", "+", "/" >>

\* unbase64: the 6-bit value of a character, 64 if it has none.  Node reads
\* the URL-safe characters - and _ as 62 and 63.
unbase64(c) ==
    IF c = "-" THEN 62
    ELSE IF c = "_" THEN 63
    ELSE IF \E v \in 1..64 : Base64Alphabet[v] = c
    THEN (CHOOSE v \in 1..64 : Base64Alphabet[v] = c) - 1
    ELSE 64

\* s without the elements at the positions that are not in keep.
Filter(s, keep) ==
    LET n == Cardinality(keep)
        Nth(k) == CHOOSE p \in keep : Cardinality({q \in keep : q <= p}) = k
    IN  [k \in 1..n |-> s[Nth(k)]]

\* Buffer.from(text, 'base64'): characters without a value are skipped, the
\* first = ends the input, an incomplete last group gives the bytes it
\* holds.  It never throws.
Base64Decode(text) ==
    LET pads == { p \in 1..Len(text) : text[p] = "=" }
        stop == IF pads = {} THEN Len(text) + 1
                ELSE CHOOSE p \in pads : \A q \in pads : p <= q
        legal == { p \in 1..(stop - 1) : unbase64(text[p]) < 64 }
        chars == Filter(text, legal)
        six == [k \in 1..Len(chars) |-> unbase64(chars[k])]
        nBytes == (Len(six) * 6) \div 8
        Pair(q) == six[q] * 64 + six[q + 1]
        Shift(r) == IF r = 0 THEN 16 ELSE IF r = 2 THEN 4 ELSE 1
        Byte(j) == (Pair((((j - 1) * 8) \div 6) + 1)
                      \div Shift(((j - 1) * 8) % 6)) % 256
    IN  [j \in 1..nBytes |-> Byte(j)]

\* Buffer.prototype.toString('base64'): three bytes to four characters, the
\* last group padded with =.
Base64Encode(bytes) ==
    LET n == Len(bytes)
        groups == (n + 2) \div 3
        B(k) == IF k <= n THEN bytes[k] ELSE 0
        Triple(g) == (B(3 * g - 2) * 256 + B(3 * g - 1)) * 256 + B(3 * g)
        Six(g, i) == (Triple(g) \div (IF i = 1 THEN 262144 ELSE IF i = 2 THEN 4096
                                      ELSE IF i = 3 THEN 64 ELSE 1)) % 64
        Char(p) ==
            LET g == ((p - 1) \div 4) + 1
                i == ((p - 1) % 4) + 1
            IN  IF (i = 3 /\ 3 * g - 1 > n) \/ (i = 4 /\ 3 * g > n) THEN "="
                ELSE Base64Alphabet[Six(g, i) + 1]
    IN  [p \in 1..(4 * groups) |-> Char(p)]

\* Concatenation of a sequence of strings.
RECURSIVE Concat(_)
Concat(parts) ==
    IF parts = <<>> THEN <<>> ELSE Head(parts) \o Concat(Tail(parts))

\* Array.prototype.join(sep)
RECURSIVE Join(_, _)
Join(parts, sep) ==
    IF parts = <<>> THEN <<>>
    ELSE IF Len(parts) = 1 THEN parts[1]
    ELSE parts[1] \o sep \o Join(Tail(parts), sep)

\* One character as Buffer.from(text) encodes it: U+FFFD takes three bytes.
BytesOfChar(c) ==
    IF c = "\r" THEN << 13 >>
    ELSE IF c = "\n" THEN << 10 >>
    ELSE IF c = ReplacementChar THEN << 239, 191, 189 >>
    ELSE << 31 + (CHOOSE b \in 1..95 : AsciiPrintable[b] = c) >>

\* Buffer.from(text) / TextEncoder.encode(text)
Utf8Bytes(text) ==
    LET wide == { k \in 1..Len(text) : text[k] = ReplacementChar }
        Start(k) == k + 2 * Cardinality({ w \in wide : w < k })
        CharAt(j) == CHOOSE k \in 1..Len(text) :
                        Start(k) <= j /\ j < Start(k) + Len(BytesOfChar(text[k]))
    IN  IF wide = {} THEN [j \in 1..Len(text) |-> BytesOfChar(text[j])[1]]
        ELSE [j \in 1..(Len(text) + 2 * Cardinality(wide)) |->
                 BytesOfChar(text[CharAt(j)])[j - Start(CharAt(j)) + 1]]

\* The decimal digits, 0 first.
Digits == << "0", "1", "2", "3", "4", "5", "6", "7", "8", "9" >>

IsDigit(c) == \E d \in 1..10 : Digits[d] = c

DigitValue(c) == (CHOOSE d \in 1..10 : Digits[d] = c) - 1

\* String(n) for a natural number n.
RECURSIVE NumberToString(_)
NumberToString(n) ==
    IF n < 10 THEN << Digits[n + 1] >>
    ELSE NumberToString(n \div 10) \o << Digits[(n % 10) + 1] >>

\* The number a run of digits denotes.
RECURSIVE NumberOfDigits(_)
NumberOfDigits(ds) ==
    IF ds = <<>> THEN 0
    ELSE NumberOfDigits(SubSeq(ds, 1, Len(ds) - 1)) * 10 + DigitValue(ds[Len(ds)])

(***************************************************************************)
(* JSON.  A JavaScript value is a record tagged by t: undefined, null, a   *)
(* number n, a string s, or an object with its properties in insertion     *)
(* order.                                                                  *)
(***************************************************************************)
JsUndefined == [t |-> "undefined"]
JsNull == [t |-> "null"]
JsNumber(n) == [t |-> "number", n |-> n]
JsString(s) == [t |-> "string", s |-> s]
JsObject(props) == [t |-> "object", props |-> props]
Prop(name, value) == [name |-> name, value |-> value]

\* A string literal as JSON.stringify writes it: quoted, with " and \
\* escaped by a backslash.
QuoteJson(s) ==
    <<"\"">> \o Concat([k \in 1..Len(s) |->
                       IF s[k] = "\"" \/ s[k] = "\\" THEN << "\\", s[k] >>
                       ELSE << s[k] >>]) \o <<"\"">>

\* JSON.stringify of a number, a string or null.
StringifyScalar(v) ==
    IF v.t = "number" THEN NumberToString(v.n)
    ELSE IF v.t = "string" THEN QuoteJson(v.s)
    ELSE <<"n", "u", "l", "l">>

\* JSON.stringify of a value; the properties of an object are scalars, as
\* the attributes of a table key are.
JsonStringify(v) ==
    IF v.t = "object"
    THEN <<"{">> \o Join([k \in 1..Len(v.props) |->
                          QuoteJson(v.props[k].name) \o <<":">>
                              \o StringifyScalar(v.props[k].value)], <<",">>)
               \o <<"}">>
    ELSE StringifyScalar(v)

NoParse == [ok |-> FALSE]

\* The text of a string literal without its escaping backslashes.
RECURSIVE Unescape(_)
Unescape(body) ==
    IF body = <<>> THEN <<>>
    ELSE IF body[1] = "\\" THEN << body[2] >> \o Unescape(SubSeq(body, 3, Len(body)))
    ELSE << body[1] >> \o Unescape(Tail(body))

\* A string literal starting at position i of text: it ends at the first "
\* that an even number of backslashes precedes.  Of the escapes only \" and
\* \\ occur in the model's texts; a raw line break is not allowed inside.
ParseStringAt(text, i) ==
    IF i > Len(text) \/ text[i] # "\"" THEN NoParse
    ELSE
      LET Slashes(j) ==
              LET other == { p \in i..(j - 1) : text[p] # "\\" \/ p = i }
              IN  (j - 1) - (CHOOSE p \in other : \A q \in other : q <= p)
          closers == { j \in (i + 1)..Len(text) :
                         text[j] = "\"" /\ Slashes(j) % 2 = 0 }
      IN  IF closers = {} THEN NoParse
          ELSE
            LET j == CHOOSE c \in closers : \A d \in closers : c <= d
                body == SubSeq(text, i + 1, j - 1)
                bad == \E p \in 1..Len(body) :
                          \/ body[p] \in {"\r", "\n"}
                          \/ /\ body[p] = "\\"
                             /\ Slashes(i + p) % 2 = 0
                             /\ body[p + 1] \notin {"\"", "\\"}
            IN  IF bad THEN NoParse
                ELSE [ok |-> TRUE, value |-> JsString(Unescape(body)), next |-> j + 1]

\* A number starting at position i: a run of digits without a leading zero
\* (the model's numbers are naturals).
ParseNumberAt(text, i) ==
    LET ends == { e \in i..Len(text) : \A p \in i..e : IsDigit(text[p]) }
    IN  IF ends = {} THEN NoParse
        ELSE
          LET e == CHOOSE x \in ends : \A y \in ends : y <= x
          IN  IF e > i /\ text[i] = "0" THEN NoParse
              ELSE [ok |-> TRUE,
                    value |-> JsNumber(NumberOfDigits(SubSeq(text, i, e))),
                    next |-> e + 1]

\* A string, a number or null starting at position i.
ParseScalarAt(text, i) ==
    IF i <= Len(text) /\ text[i] = "\"" THEN ParseStringAt(text, i)
    ELSE IF i + 3 <= Len(text) /\ SubSeq(text, i, i + 3) = <<"n", "u", "l", "l">>
    THEN [ok |-> TRUE, value |-> JsNull, next |-> i + 4]
    ELSE ParseNumberAt(text, i)

\* The members of an object from position i on, after the ones in props:
\* "name":scalar, separated by commas, closed by a brace.
RECURSIVE ParseMembersAt(_, _, _)
ParseMembersAt(text, i, props) ==
    LET name == ParseStringAt(text, i)
    IN  IF ~name.ok \/ name.next > Len(text) \/ text[name.next] # ":" THEN NoParse
        ELSE
          LET val == ParseScalarAt(text, name.next + 1)
          IN  IF ~val.ok \/ val.next > Len(text) THEN NoParse
              ELSE
                LET all == Append(props, Prop(name.value.s, val.value))
                IN  IF text[val.next] = "}"
                    THEN [ok |-> TRUE, value |-> JsObject(all), next |-> val.next + 1]
                    ELSE IF text[val.next] = ","
                    THEN ParseMembersAt(text, val.next + 1, all)
                    ELSE NoParse

\* A JSON value starting at position i.
ParseValueAt(text, i) ==
    IF i <= Len(text) /\ text[i] = "{"
    THEN IF i + 1 <= Len(text) /\ text[i + 1] = "}"
         THEN [ok |-> TRUE, value |-> JsObject(<<>>), next |-> i + 2]
         ELSE ParseMembersAt(text, i + 1, <<>>)
    ELSE ParseScalarAt(text, i)

\* JSON.parse(text): the value the whole text denotes, or a SyntaxError.
\* The grammar covers what JSON.stringify writes for scalars and for
\* objects of scalars.
ParseJson(text) ==
    LET r == ParseValueAt(text, 1)
    IN  IF r.ok /\ r.next = Len(text) + 1
        THEN [threw |-> FALSE, value |-> r.value]
        ELSE [threw |-> TRUE]

(***************************************************************************)
(* events.list (events.ts:84-159).                                         *)
(***************************************************************************)
\* How many items one page of the list query carries, at most.
MaxListItems == 3

\* An item of the accountId-sentAt index.
ListItem(mid, type, t) ==
    [messageId |-> mid, from |-> "sender@example.com",
     to |-> << "user@example.com" >>, subject |-> "Hello",
     eventType |-> type, sentAt |-> t, additionalData |-> Undefined]

\* The items a page is drawn from: events of two messages.
ListItems ==
    { ListItem("msg-1", T_Send, 1), ListItem("msg-1", T_Bounce, 2),
      ListItem("msg-2", T_Delivery, 1) }

\* A key of the index, as the table hands it out in LastEvaluatedKey.
IndexKey(sentAt) ==
    JsObject(<< Prop(<<"a", "c", "c", "o", "u", "n", "t", "I", "d">>, JsString(<<"1", "2", "3">>)),
                Prop(<<"s", "e", "n", "t", "A", "t">>, JsNumber(sentAt)) >>)

\* response.LastEvaluatedKey of a page: absent, or a key.
LastKeys == { JsUndefined, IndexKey(2) }

\* How the table may answer a query: a page, or a failure that is an AWS
\* SDK error (it carries $metadata) or some other error.
ListResponses ==
    { [kind |-> "ok", Items |-> items, LastEvaluatedKey |-> k] :
          items \in SeqsOf(ListItems, 0, MaxListItems), k \in LastKeys }
    \cup { [kind |-> "sdk_error"], [kind |-> "plain_error"] }

\* nextToken that hands out the JSON text of the key as it is.
nextTokenOfJson(key) ==
    IF key.t = "undefined" THEN JsUndefined
    ELSE JsString(JsonStringify(key))

\* events.ts:150-153: the token handed out for a key.
nextToken(key) ==
    IF key.t = "undefined" THEN JsUndefined
    ELSE JsString(Base64Encode(Utf8Bytes(JsonStringify(key))))

\* Continuation tokens a caller may pass: none, the empty string, a token
\* list() handed out, that token followed by a character base64 has no use
\* for, the base64 text of the JSON number 7, of the JSON string "a", of
\* the empty JSON object, and a text that is no base64 at all.
ContinuationTokens ==
    { JsUndefined,
      JsString(<<>>),
      nextToken(IndexKey(1)),
      JsString(nextToken(IndexKey(1)).s \o <<"!">>),
      JsString(<<"N", "w", "=", "=">>),
      JsString(<<"I", "m", "E", "i">>),
      JsString(<<"e", "3", "0", "=">>),
      JsString(<<"n", "o", "t", "-", "v", "a", "l", "i", "d", "-", "b", "a", "s", "e", "6", "4", "!", "@", "#">>) }

\* EmailListOptions: startTime and endTime are Dates, present or not;
\* maxResults 0 stands for an absent maxResults as well.
ListOptions ==
    [accountId : {"", "123456789012"},
     hasStartTime : BOOLEAN, hasEndTime : BOOLEAN,
     maxResults : {0, 10},
     continuationToken : ContinuationTokens]

\* line 90: options.maxResults || 50
DefaultLimit == 50
Limit(o) == IF o.maxResults = 0 THEN DefaultLimit ELSE o.maxResults

StartTimeMs == 10
EndTimeMs == 20

\* events.ts:92-106: the key condition for the time range of the options.
KeyCondition(o) ==
    IF o.hasStartTime /\ o.hasEndTime
    THEN [expr |-> "accountId = :aid AND sentAt BETWEEN :start AND :end",
          aid |-> o.accountId, start |-> StartTimeMs, end |-> EndTimeMs]
    ELSE IF o.hasStartTime
    THEN [expr |-> "accountId = :aid AND sentAt >= :start",
          aid |-> o.accountId, start |-> StartTimeMs]
    ELSE IF o.hasEndTime
    THEN [expr |-> "accountId = :aid AND sentAt <= :end",
          aid |-> o.accountId, end |-> EndTimeMs]
    ELSE [expr |-> "accountId = :aid", aid |-> o.accountId]

\* events.ts:108-117: exclusiveStartKey for the token of the options.  Only a
\* SyntaxError of JSON.parse reaches the catch.
DecodeToken(token) ==
    IF token.t = "undefined" \/ token.s = <<>>
    THEN [threw |-> FALSE, value |-> JsUndefined]
    ELSE ParseJson(Utf8ToString(Base64Decode(token.s)))

\* The QueryCommand of events.ts:120-130.
QueryCommand(o, key) ==
    [IndexName |-> "accountId-sentAt-index",
     KeyCondition |-> KeyCondition(o),
     ScanIndexForward |-> FALSE,
     Limit |-> Limit(o),
     ExclusiveStartKey |-> key]

\* The table takes an absent start key and a key of the index; for any
\* other value the send fails (a table answering "ok" is then a service
\* ValidationException).
AnswerTo(key, r) ==
    IF key.t = "undefined" \/ (key.t = "object" /\ key.props # <<>>) THEN r
    ELSE IF r.kind = "plain_error" THEN r
    ELSE [kind |-> "sdk_error"]

\* GroupByMessageId that starts a new group whenever the messageId changes
\* from one item to the next.
GroupAdjacent(items) ==
    LET firsts == { p \in 1..Len(items) :
                      p = 1 \/ items[p - 1].messageId # items[p].messageId }
        End(p) == IF \E q \in firsts : q > p
                  THEN (CHOOSE q \in firsts : q > p /\ \A r \in firsts : r > p => q <= r) - 1
                  ELSE Len(items)
        starts == Filter([p \in 1..Len(items) |-> p], firsts)
    IN  [g \in 1..Len(starts) |-> SubSeq(items, starts[g], End(starts[g]))]

\* events.ts:134-142: the items of each messageId, the groups in the order in
\* which their messageId first occurs (Map keeps insertion order).
GroupByMessageId(items) ==
    LET firsts == { p \in 1..Len(items) :
                      \A q \in 1..(p - 1) : items[q].messageId # items[p].messageId }
        heads == Filter(items, firsts)
    IN  [g \in 1..Len(heads) |->
            Filter(items, { p \in 1..Len(items) :
                              items[p].messageId = heads[g].messageId })]

\* events.ts:144-155: what list() resolves with for a page.
ListResult(r) ==
    LET groups == GroupByMessageId(r.Items)
    IN  [state |-> "resolved",
         emails |-> [g \in 1..Len(groups) |-> aggregateStatus(groups[g])],
         nextToken |-> nextToken(r.LastEvaluatedKey)]

\* events.list(options), from the call to the settling of its promise.
List ==
    /\ pc = "idle"
    /\ listed = NoCall
    /\ listOpts # NoCall
    /\ IF listOpts.accountId = ""
       THEN /\ listed' = Rejected("ValidationError")
            /\ UNCHANGED queries
       ELSE LET key == DecodeToken(listOpts.continuationToken)
            IN  IF key.threw
                THEN /\ listed' = Rejected("ValidationError")
                     /\ UNCHANGED queries
                ELSE LET r == AnswerTo(key.value, listResp)
                     IN  /\ queries' = Append(queries, QueryCommand(listOpts, key.value))
                         /\ listed' = IF r.kind = "ok" THEN ListResult(r)
                                      ELSE Rejected(handleDynamoDBError(r.kind))
    /\ UNCHANGED <<listOpts, listResp>>
    /\ UNCHANGED <<batchVars, eventVars, inboxVars, mimeVars, pairVars, smsVars>>

InitList ==
    /\ BatchIdle
    /\ EventsIdle
    /\ InboxIdle
    /\ MimeIdle
    /\ PairIdle
    /\ SmsIdle
    /\ listOpts \in ListOptions
    /\ listResp \in ListResponses
    /\ queries = <<>>
    /\ listed = NoCall

NextList == List

\* One list() call, for every option set and every answer of the table.
SpecList == InitList /\ [][NextList]_vars

(***************************************************************************)
(* Claims about events.list.                                               *)
(***************************************************************************)
\* The token is what list() hands out for some key object: the base64 text
\* of the JSON text of an object.
EncodesKeyObject(token) ==
    /\ token.t = "string"
    /\ LET p == ParseJson(Utf8ToString(Base64Decode(token.s)))
       IN  /\ ~p.threw
           /\ p.value.t = "object"
           /\ token.s = Base64Encode(Utf8Bytes(JsonStringify(p.value)))

ListCalledWithBadToken ==
    /\ listed # NoCall
    /\ listOpts.accountId # ""
    /\ listOpts.continuationToken.t = "string"
    /\ listOpts.continuationToken.s # <<>>
    /\ ~EncodesKeyObject(listOpts.continuationToken)

\* C11: a list() call whose continuation token is not the base64 encoding
\* of a JSON key object is rejected with a ValidationError, and no query
\* reaches the table.
C11_BadTokenRejected ==
    ListCalledWithBadToken =>
        /\ listed = Rejected("ValidationError")
        /\ queries = <<>>

(***************************************************************************)
(* buildRawEmailMessage (utils/mime.ts).                                   *)
(***************************************************************************)
\* How many attachments a caller passes, at most.
MaxAttachments == 2

CRLF == << "\r", "\n" >>

JsArray(items) == [t |-> "array", items |-> items]
Buffer(bytes) == [t |-> "Buffer", bytes |-> bytes]
EmailAddress(email, name) == [t |-> "EmailAddress", email |-> email, name |-> name]

\* Whether if (v) takes the branch: undefined and the empty string do not.
Truthy(v) ==
    IF v.t = "undefined" \/ v.t = "null" THEN FALSE
    ELSE IF v.t = "string" THEN v.s # <<>>
    ELSE TRUE

\* generateBoundary (mime.ts:6-8): the prefix, Date.now() and the digits
\* Math.random().toString(36).substring(2, 15) leaves.
generateBoundary(prefix, now, random) ==
    prefix \o <<"_">> \o NumberToString(now) \o <<"_">> \o random

\* The escape that leaves the backslashes of the name alone.
EscapeQuotesOnly(name) ==
    Concat([k \in 1..Len(name) |->
               IF name[k] = "\"" THEN << "\\", name[k] >>
               ELSE << name[k] >>])

\* name.replace(/\\/g, '\\\\').replace(/"/g, '\\"') (mime.ts:19)
EscapeName(name) ==
    Concat([k \in 1..Len(name) |->
               IF name[k] = "\\" \/ name[k] = "\"" THEN << "\\", name[k] >>
               ELSE << name[k] >>])

\* formatEmailAddress (mime.ts:13-23)
formatEmailAddress(address) ==
    IF address.t = "string" THEN address.s
    ELSE IF Truthy(address.name)
    THEN <<"\"">> \o EscapeName(address.name.s) \o <<"\"", " ", "<">> \o address.email \o <<">">>
    ELSE address.email

\* formatEmailAddresses (mime.ts:28-33)
formatEmailAddresses(addresses) ==
    LET addressArray == IF addresses.t = "array" THEN addresses.items
                        ELSE << addresses >>
    IN  Join([k \in 1..Len(addressArray) |-> formatEmailAddress(addressArray[k])],
             <<",", " ">>)

\* The split with lines of 77 characters.
SplitLines77(base64) ==
    LET n == Len(base64)
        count == (n + 76) \div 77
    IN  Join([i \in 1..count |->
                 SubSeq(base64, 77 * (i - 1) + 1, Min(77 * i, n))], CRLF)

\* base64.match(/.{1,76}/g)?.join('\r\n') || base64 (mime.ts:42)
SplitLines76(base64) ==
    LET n == Len(base64)
        count == (n + 75) \div 76
    IN  Join([i \in 1..count |->
                 SubSeq(base64, 76 * (i - 1) + 1, Min(76 * i, n))], CRLF)

\* encodeAttachment (mime.ts:38-43): a string content is taken as base64
\* text and decoded first.
encodeAttachment(content) ==
    LET buffer == IF content.t = "string" THEN Base64Decode(content.s)
                  ELSE content.bytes
    IN  SplitLines76(Base64Encode(buffer))

\* filename.split('.').pop(): what follows the last dot, the whole name if
\* it has none.
LastSegment(filename) ==
    LET dots == { p \in 1..Len(filename) : filename[p] = "." }
    IN  IF dots = {} THEN filename
        ELSE SubSeq(filename, (CHOOSE p \in dots : \A q \in dots : q <= p) + 1,
                    Len(filename))

OctetStream == <<"a", "p", "p", "l", "i", "c", "a", "t", "i", "o", "n", "/", "o", "c", "t", "e", "t", "-", "s", "t", "r", "e", "a", "m">>

\* const mimeTypes (mime.ts:55-70)
mimeTypes(ext) ==
    CASE ext = <<"p", "d", "f">> -> <<"a", "p", "p", "l", "i", "c", "a", "t", "i", "o", "n", "/", "p", "d", "f">>
      [] ext = <<"d", "o", "c">> -> <<"a", "p", "p", "l", "i", "c", "a", "t", "i", "o", "n", "/", "m", "s", "w", "o", "r", "d">>
      [] ext = <<"d", "o", "c", "x">> ->
           <<"a", "p", "p", "l", "i", "c", "a", "t", "i", "o", "n", "/", "v", "n", "d", ".", "o", "p", "e", "n", "x", "m", "l", "f", "o", "r", "m", "a", "t", "s", "-", "o", "f", "f", "i", "c", "e", "d", "o", "c", "u", "m", "e", "n", "t", ".", "w", "o", "r", "d", "p", "r", "o", "c", "e", "s", "s", "i", "n", "g", "m", "l", ".", "d", "o", "c", "u", "m", "e", "n", "t">>
      [] ext = <<"x", "l", "s">> -> <<"a", "p", "p", "l", "i", "c", "a", "t", "i", "o", "n", "/", "v", "n", "d", ".", "m", "s", "-", "e", "x", "c", "e", "l">>
      [] ext = <<"x", "l", "s", "x">> ->
           <<"a", "p", "p", "l", "i", "c", "a", "t", "i", "o", "n", "/", "v", "n", "d", ".", "o", "p", "e", "n", "x", "m", "l", "f", "o", "r", "m", "a", "t", "s", "-", "o", "f", "f", "i", "c", "e", "d", "o", "c", "u", "m", "e", "n", "t", ".", "s", "p", "r", "e", "a", "d", "s", "h", "e", "e", "t", "m", "l", ".", "s", "h", "e", "e", "t">>
      [] ext = <<"p", "n", "g">> -> <<"i", "m", "a", "g", "e", "/", "p", "n", "g">>
      [] ext = <<"j", "p", "g">> -> <<"i", "m", "a", "g", "e", "/", "j", "p", "e", "g">>
      [] ext = <<"j", "p", "e", "g">> -> <<"i", "m", "a", "g", "e", "/", "j", "p", "e", "g">>
      [] ext = <<"g", "i", "f">> -> <<"i", "m", "a", "g", "e", "/", "g", "i", "f">>
      [] ext = <<"t", "x", "t">> -> <<"t", "e", "x", "t", "/", "p", "l", "a", "i", "n">>
      [] ext = <<"h", "t", "m", "l">> -> <<"t", "e", "x", "t", "/", "h", "t", "m", "l">>
      [] ext = <<"c", "s", "v">> -> <<"t", "e", "x", "t", "/", "c", "s", "v">>
      [] ext = <<"z", "i", "p">> -> <<"a", "p", "p", "l", "i", "c", "a", "t", "i", "o", "n", "/", "z", "i", "p">>
      [] ext = <<"j", "s", "o", "n">> -> <<"a", "p", "p", "l", "i", "c", "a", "t", "i", "o", "n", "/", "j", "s", "o", "n">>
      [] OTHER -> <<>>

\* getMimeType (mime.ts:48-73)
getMimeType(filename, providedType) ==
    IF Truthy(providedType) THEN providedType.s
    ELSE LET found == mimeTypes(toLowerCase(LastSegment(filename)))
         IN  IF found # <<>> THEN found ELSE OctetStream

\* mime.ts:113-119: Subject, MIME-Version, the top-level Content-Type, the
\* blank line and the first delimiter of the main boundary.
TopLevelHeader(p, mainBoundary) ==
    << <<"S", "u", "b", "j", "e", "c", "t", ":", " ">> \o p.subject,
       <<"M", "I", "M", "E", "-", "V", "e", "r", "s", "i", "o", "n", ":", " ", "1", ".", "0">>,
       <<"C", "o", "n", "t", "e", "n", "t", "-", "T", "y", "p", "e", ":", " ", "m", "u", "l", "t", "i", "p", "a", "r", "t", "/", "m", "i", "x", "e", "d", ";", " ", "b", "o", "u", "n", "d", "a", "r", "y", "=", "\"">> \o mainBoundary \o <<"\"">>,
       <<>>,
       <<"-", "-">> \o mainBoundary >>

\* mime.ts:100-111: From, To and the optional address headers.
AddressHeaders(p) ==
    << <<"F", "r", "o", "m", ":", " ">> \o formatEmailAddress(p.from),
       <<"T", "o", ":", " ">> \o formatEmailAddresses(p.to) >>
    \o (IF Truthy(p.cc) THEN << <<"C", "c", ":", " ">> \o formatEmailAddresses(p.cc) >> ELSE <<>>)
    \o (IF Truthy(p.bcc) THEN << <<"B", "c", "c", ":", " ">> \o formatEmailAddresses(p.bcc) >> ELSE <<>>)
    \o (IF Truthy(p.replyTo)
        THEN << <<"R", "e", "p", "l", "y", "-", "T", "o", ":", " ">> \o formatEmailAddresses(p.replyTo) >> ELSE <<>>)

TextPartHeader == << <<"C", "o", "n", "t", "e", "n", "t", "-", "T", "y", "p", "e", ":", " ", "t", "e", "x", "t", "/", "p", "l", "a", "i", "n", ";", " ", "c", "h", "a", "r", "s", "e", "t", "=", "U", "T", "F", "-", "8">>,
                     <<"C", "o", "n", "t", "e", "n", "t", "-", "T", "r", "a", "n", "s", "f", "e", "r", "-", "E", "n", "c", "o", "d", "i", "n", "g", ":", " ", "7", "b", "i", "t">>, <<>> >>
HtmlPartHeader == << <<"C", "o", "n", "t", "e", "n", "t", "-", "T", "y", "p", "e", ":", " ", "t", "e", "x", "t", "/", "h", "t", "m", "l", ";", " ", "c", "h", "a", "r", "s", "e", "t", "=", "U", "T", "F", "-", "8">>,
                     <<"C", "o", "n", "t", "e", "n", "t", "-", "T", "r", "a", "n", "s", "f", "e", "r", "-", "E", "n", "c", "o", "d", "i", "n", "g", ":", " ", "7", "b", "i", "t">>, <<>> >>

\* BodyLines that puts the html part before the text part.
BodyLinesHtmlFirst(p, altBoundary) ==
    (IF Truthy(p.text) /\ Truthy(p.html)
     THEN << <<"C", "o", "n", "t", "e", "n", "t", "-", "T", "y", "p", "e", ":", " ", "m", "u", "l", "t", "i", "p", "a", "r", "t", "/", "a", "l", "t", "e", "r", "n", "a", "t", "i", "v", "e", ";", " ", "b", "o", "u", "n", "d", "a", "r", "y", "=", "\"">> \o altBoundary \o <<"\"">>,
            <<>> >>
         \o << <<"-", "-">> \o altBoundary >> \o HtmlPartHeader \o << p.html.s, <<>> >>
         \o << <<"-", "-">> \o altBoundary >> \o TextPartHeader \o << p.text.s, <<>> >>
         \o << <<"-", "-">> \o altBoundary \o <<"-", "-">> >>
    ELSE IF Truthy(p.html) THEN HtmlPartHeader \o << p.html.s >>
    ELSE IF Truthy(p.text) THEN TextPartHeader \o << p.text.s >>
    ELSE <<>>)
    \o << <<>> >>

\* mime.ts:121-156: the body part(s), then (line 156) a blank line.
BodyLines(p, altBoundary) ==
    (IF Truthy(p.text) /\ Truthy(p.html)
     THEN << <<"C", "o", "n", "t", "e", "n", "t", "-", "T", "y", "p", "e", ":", " ", "m", "u", "l", "t", "i", "p", "a", "r", "t", "/", "a", "l", "t", "e", "r", "n", "a", "t", "i", "v", "e", ";", " ", "b", "o", "u", "n", "d", "a", "r", "y", "=", "\"">> \o altBoundary \o <<"\"">>,
             <<>> >>
          \o << <<"-", "-">> \o altBoundary >> \o TextPartHeader \o << p.text.s, <<>> >>
          \o << <<"-", "-">> \o altBoundary >> \o HtmlPartHeader \o << p.html.s, <<>> >>
          \o << <<"-", "-">> \o altBoundary \o <<"-", "-">> >>
     ELSE IF Truthy(p.html) THEN HtmlPartHeader \o << p.html.s >>
     ELSE IF Truthy(p.text) THEN TextPartHeader \o << p.text.s >>
     ELSE <<>>)
    \o << <<>> >>

\* mime.ts:161-181: the lines of one attachment part.
AttachmentLines(attachment, mainBoundary) ==
    LET mimeType == getMimeType(attachment.filename, attachment.contentType)
        encoding == IF Truthy(attachment.encoding) THEN attachment.encoding.s
                    ELSE <<"b", "a", "s", "e", "6", "4">>
    IN  << <<"-", "-">> \o mainBoundary,
           <<"C", "o", "n", "t", "e", "n", "t", "-", "T", "y", "p", "e", ":", " ">> \o mimeType \o <<";", " ", "n", "a", "m", "e", "=", "\"">> \o attachment.filename \o <<"\"">>,
           <<"C", "o", "n", "t", "e", "n", "t", "-", "D", "i", "s", "p", "o", "s", "i", "t", "i", "o", "n", ":", " ", "a", "t", "t", "a", "c", "h", "m", "e", "n", "t", ";", " ", "f", "i", "l", "e", "n", "a", "m", "e", "=", "\"">> \o attachment.filename \o <<"\"">>,
           <<"C", "o", "n", "t", "e", "n", "t", "-", "T", "r", "a", "n", "s", "f", "e", "r", "-", "E", "n", "c", "o", "d", "i", "n", "g", ":", " ">> \o encoding,
           <<>>,
           IF encoding = <<"b", "a", "s", "e", "6", "4">> THEN encodeAttachment(attachment.content)
           ELSE IF attachment.content.t = "string" THEN attachment.content.s
           ELSE Utf8ToString(attachment.content.bytes),
           <<>> >>

Returned(value) == [state |-> "returned", value |-> value]
Threw(error) == [state |-> "threw", error |-> error]

\* buildRawEmailMessage (mime.ts:90-188).  e is what the clock and the
\* random generator give to the two generateBoundary calls.  The loop over
\* params.attachments throws a TypeError when there is no such array.
buildRawEmailMessage(p, e) ==
    LET mainBoundary == generateBoundary(<<"m", "a", "i", "n">>, e.mainNow, e.mainRandom)
        altBoundary == generateBoundary(<<"a", "l", "t">>, e.altNow, e.altRandom)
    IN  IF p.attachments.t # "array" THEN Threw("TypeError")
        ELSE Returned(Join(
                 AddressHeaders(p)
                 \o TopLevelHeader(p, mainBoundary)
                 \o BodyLines(p, altBoundary)
                 \o Concat([k \in 1..Len(p.attachments.items) |->
                               AttachmentLines(p.attachments.items[k], mainBoundary)])
                 \o << <<"-", "-">> \o mainBoundary \o <<"-", "-">> >>,
                 CRLF))

(***************************************************************************)
(* One call of buildRawEmailMessage.                                       *)
(***************************************************************************)
\* Attachments a caller may pass: a Buffer with a name whose extension is
\* in the table, a base64 string with an explicit type, and a 7bit text
\* with a name without extension.
TextAttachment ==
    [filename |-> <<"a", ".", "t", "x", "t">>, content |-> Buffer(Utf8Bytes(<<"H", "e", "l", "l", "o", ",", " ", "W", "o", "r", "l", "d", "!">>)),
     contentType |-> JsUndefined, encoding |-> JsUndefined]
PdfAttachment ==
    [filename |-> <<"b", ".", "P", "D", "F">>, content |-> JsString(<<"c", "G", "R", "m">>),
     contentType |-> JsString(<<"a", "p", "p", "l", "i", "c", "a", "t", "i", "o", "n", "/", "p", "d", "f">>), encoding |-> JsUndefined]
PlainAttachment ==
    [filename |-> <<"n", "o", "t", "e", "s">>, content |-> JsString(<<"s", "e", "e", " ", "y", "o", "u">>),
     contentType |-> JsUndefined, encoding |-> JsString(<<"7", "b", "i", "t">>)]

Attachments == { TextAttachment, PdfAttachment, PlainAttachment }

\* params.attachments: the field left out, or an array of up to
\* MaxAttachments attachments.
AttachmentLists ==
    { JsUndefined } \cup { JsArray(items) : items \in SeqsOf(Attachments, 0, MaxAttachments) }

\* cc, bcc and replyTo: all absent, or all given.
NoExtras == [cc |-> JsUndefined, bcc |-> JsUndefined, replyTo |-> JsUndefined]
AllExtras ==
    [cc |-> JsArray(<< JsString(<<"c", "@", "x", ".", "i", "o">>), JsString(<<"d", "@", "x", ".", "i", "o">>) >>),
     bcc |-> JsString(<<"b", "@", "x", ".", "i", "o">>),
     replyTo |-> EmailAddress(<<"r", "e", "@", "x", ".", "i", "o">>, JsUndefined)]

\* The BuildRawEmailParams of the model.
MimeParams ==
    { [from |-> f, to |-> t, cc |-> x.cc, bcc |-> x.bcc, replyTo |-> x.replyTo,
       subject |-> <<"H", "i">>, text |-> tx, html |-> h, attachments |-> a] :
        f \in { JsString(<<"s", "@", "x", ".", "i", "o">>), EmailAddress(<<"s", "@", "x", ".", "i", "o">>, JsString(<<"J", " ", "\"", "D", "\"", " ", "\\", "\\", "o", "/">>)) },
        t \in { JsString(<<"r", "@", "x", ".", "i", "o">>),
                JsArray(<< EmailAddress(<<"r", "@", "x", ".", "i", "o">>, JsString(<<"A", "n", "n">>)),
                           JsString(<<"q", "@", "x", ".", "i", "o">>) >>) },
        x \in { NoExtras, AllExtras },
        tx \in { JsUndefined, JsString(<<>>), JsString(<<"H", "e", "l", "l", "o", "\n", "W", "o", "r", "l", "d">>) },
        h \in { JsUndefined, JsString(<<>>), JsString(<<"<", "p", ">", "H", "i", "<", "/", "p", ">">>) },
        a \in AttachmentLists }

\* What the clock and Math.random() give: the same millisecond and digits
\* for both boundaries, different ones, and a random number without
\* digits after the substring.
Entropies ==
    { [mainNow |-> 1, mainRandom |-> <<"k", "3">>, altNow |-> 1, altRandom |-> <<"k", "3">>],
      [mainNow |-> 1, mainRandom |-> <<"k", "3">>, altNow |-> 2, altRandom |-> <<"z", "9">>],
      [mainNow |-> 2, mainRandom |-> <<>>, altNow |-> 2, altRandom |-> <<>>] }

Build ==
    /\ pc = "idle"
    /\ params # NoCall
    /\ message = NoCall
    /\ message' = buildRawEmailMessage(params, entropy)
    /\ UNCHANGED <<params, entropy>>
    /\ UNCHANGED <<batchVars, eventVars, listVars, inboxVars, pairVars, smsVars>>

InitMime ==
    /\ BatchIdle
    /\ EventsIdle
    /\ ListIdle
    /\ InboxIdle
    /\ PairIdle
    /\ SmsIdle
    /\ params \in MimeParams
    /\ entropy \in Entropies
    /\ message = NoCall

NextMime == Build

\* One call of buildRawEmailMessage, for every parameter set of the model.
SpecMime == InitMime /\ [][NextMime]_vars

(***************************************************************************)
(* Claims about buildRawEmailMessage.                                      *)
(***************************************************************************)
\* The lines of a text: what stands between its CRLF pairs.
LinesOf(text) ==
    LET seps == { i \in 1..(Len(text) - 1) : text[i] = "\r" /\ text[i + 1] = "\n" }
        n == Cardinality(seps)
        Sep(k) == CHOOSE p \in seps : Cardinality({ q \in seps : q <= p }) = k
    IN  [k \in 1..(n + 1) |->
            SubSeq(text, IF k = 1 THEN 1 ELSE Sep(k - 1) + 2,
                         IF k = n + 1 THEN Len(text) ELSE Sep(k) - 1)]

StartsWith(s, prefix) ==
    Len(s) >= Len(prefix) /\ SubSeq(s, 1, Len(prefix)) = prefix

\* The header block of a message: its lines before the first empty line.
HeaderBlock(lines) ==
    LET empty == { k \in 1..Len(lines) : lines[k] = <<>> }
    IN  IF empty = {} THEN lines
        ELSE SubSeq(lines, 1, (CHOOSE k \in empty : \A j \in empty : k <= j) - 1)

\* The values of the header lines of the given name.
HeaderValues(lines, name) ==
    { SubSeq(lines[k], Len(name) + 1, Len(lines[k])) :
        k \in { j \in 1..Len(lines) : StartsWith(lines[j], name) } }

NoAttachments(p) == p.attachments.t # "array" \/ p.attachments.items = <<>>

\* The type of the only body of the parameters.
OwnBodyType(p) == IF Truthy(p.html) THEN <<"t", "e", "x", "t", "/", "h", "t", "m", "l">> ELSE <<"t", "e", "x", "t", "/", "p", "l", "a", "i", "n">>

\* C19: without attachments and with one body only the message is single
\* part, its top-level Content-Type being the type of that body; a
\* top-level multipart/mixed is emitted only when there are attachments.
C19_SinglePartWithoutAttachments ==
    message # NoCall =>
        LET top == IF message.state = "returned"
                   THEN HeaderValues(HeaderBlock(LinesOf(message.value)),
                                     <<"C", "o", "n", "t", "e", "n", "t", "-", "T", "y", "p", "e", ":", " ">>)
                   ELSE {}
        IN  /\ (NoAttachments(params) /\ Truthy(params.text) # Truthy(params.html))
                  => /\ message.state = "returned"
                     /\ \E v \in top : StartsWith(v, OwnBodyType(params))
            /\ (\E v \in top : StartsWith(v, <<"m", "u", "l", "t", "i", "p", "a", "r", "t", "/", "m", "i", "x", "e", "d">>))
                  => ~NoAttachments(params)

\* The boundaries declared by the Content-Type lines of a multipart type.
DeclaredBoundaries(lines, type) ==
    { SubSeq(v, Len(type) + Len(<<";", " ", "b", "o", "u", "n", "d", "a", "r", "y", "=", "\"">>) + 1, Len(v) - 1) :
        v \in { w \in HeaderValues(lines, <<"C", "o", "n", "t", "e", "n", "t", "-", "T", "y", "p", "e", ":", " ">>) :
                  StartsWith(w, type \o <<";", " ", "b", "o", "u", "n", "d", "a", "r", "y", "=", "\"">>) } }

Openers(lines, b) == { k \in 1..Len(lines) : lines[k] = <<"-", "-">> \o b }
Closers(lines, b) == { k \in 1..Len(lines) : lines[k] = <<"-", "-">> \o b \o <<"-", "-">> }

\* The lines at which an attachment part opens: a delimiter followed by the
\* part's Content-Type and Content-Disposition.
AttachmentOpeners(lines) ==
    { k \in 1..(Len(lines) - 2) :
        /\ StartsWith(lines[k], <<"-", "-">>)
        /\ StartsWith(lines[k + 1], <<"C", "o", "n", "t", "e", "n", "t", "-", "T", "y", "p", "e", ":", " ">>)
        /\ StartsWith(lines[k + 2], <<"C", "o", "n", "t", "e", "n", "t", "-", "D", "i", "s", "p", "o", "s", "i", "t", "i", "o", "n", ":", " ", "a", "t", "t", "a", "c", "h", "m", "e", "n", "t">>) }

BoundariesWellFormed(lines) ==
    \A b \in DeclaredBoundaries(lines, <<"m", "u", "l", "t", "i", "p", "a", "r", "t", "/", "m", "i", "x", "e", "d">>)
               \cup DeclaredBoundaries(lines, <<"m", "u", "l", "t", "i", "p", "a", "r", "t", "/", "a", "l", "t", "e", "r", "n", "a", "t", "i", "v", "e">>) :
        /\ Openers(lines, b) # {}
        /\ Cardinality(Closers(lines, b)) = 1
        /\ \A c \in Closers(lines, b) : \A o \in Openers(lines, b) : o < c

AlternativeWellFormed(lines, p) ==
    LET alts == DeclaredBoundaries(lines, <<"m", "u", "l", "t", "i", "p", "a", "r", "t", "/", "a", "l", "t", "e", "r", "n", "a", "t", "i", "v", "e">>)
    IN  /\ (alts # {}) <=> (Truthy(p.text) /\ Truthy(p.html))
        /\ \A b \in alts :
              \A c \in Closers(lines, b) :
                 /\ \E o1, o2 \in Openers(lines, b) :
                       /\ o1 < o2 /\ o2 < c
                       /\ StartsWith(lines[o1 + 1], <<"C", "o", "n", "t", "e", "n", "t", "-", "T", "y", "p", "e", ":", " ", "t", "e", "x", "t", "/", "p", "l", "a", "i", "n">>)
                       /\ StartsWith(lines[o2 + 1], <<"C", "o", "n", "t", "e", "n", "t", "-", "T", "y", "p", "e", ":", " ", "t", "e", "x", "t", "/", "h", "t", "m", "l">>)
                 /\ \A a \in AttachmentOpeners(lines) : c < a

SdkError(name, msg, requestId) ==
    [name |-> name, message |-> msg, metadata |-> TRUE, requestId |-> requestId]
PlainError(name, msg) == [name |-> name, message |-> msg, metadata |-> FALSE]

\* new SESError(message, code, requestId, retryable) (errors.ts:18-30)
SESError(msg, code, requestId, retryable) ==
    [name |-> "SESError", message |-> msg, metadata |-> FALSE,
     code |-> code, requestId |-> requestId, retryable |-> retryable]

\* requireSES (inbox.ts:42-50): the error it throws.
ValidationError ==
    PlainError("ValidationError", "SES client is required for forward() and reply().")

OrElse(s, default) == IF s = "" THEN default ELSE s

\* handleError (inbox.ts:378-393)
handleError(err) ==
    IF err.metadata
    THEN SESError(OrElse(err.message, "S3 request failed"), OrElse(err.name, "Unknown"),
                  OrElse(err.requestId, "unknown"), FALSE)
    ELSE err

\* requireSES that lets a missing client pass.
requireSESUnchecked(client) == [threw |-> FALSE]

\* requireSES (inbox.ts:42-50)
requireSES(client) ==
    IF client = "null" THEN [threw |-> TRUE, error |-> ValidationError]
    ELSE [threw |-> FALSE]

\* What a GetObjectCommand may give: a body, no body, or a failure.
ReadOk(body) == [kind |-> "ok", body |-> body]
ReadEmpty == [kind |-> "empty"]
ReadFails(err) == [kind |-> "error", error |-> err]

\* Failures of the bucket: the key does not exist (an SDK error with a
\* request id), the service is throttling (an SDK error, transient), the
\* connection broke (no SDK error).
NoSuchKey == SdkError("NoSuchKey", "The specified key does not exist.", "req-s3-1")
SlowDown == SdkError("SlowDown", "Please reduce your request rate.", "")
SocketError == PlainError("TimeoutError", "socket hang up")
StoreErrors == { NoSuchKey, SlowDown, SocketError }

\* get (inbox.ts:94-109) for an answer of the bucket: the InboxEmail, or
\* the error thrown.
get(answer) ==
    IF answer.kind = "ok" THEN [threw |-> FALSE, value |-> answer.body]
    ELSE IF answer.kind = "empty"
    THEN [threw |-> TRUE,
          error |-> handleError(PlainError("Error", "Empty response body from S3"))]
    ELSE [threw |-> TRUE, error |-> handleError(answer.error)]

(***************************************************************************)
(* String.prototype.replace with the header patterns of forward():         *)
(*   /^NAME:\s*.+$/im  and  /^NAME:\s*(.+)$/im.                            *)
(***************************************************************************)
LineTerminators == { "\r", "\n" }
WhiteSpace == { " ", "\t", "\r", "\n" }

\* ^ with the m flag: the start of the text or just after a terminator.
AtLineStart(text, i) == i = 1 \/ text[i - 1] \in LineTerminators

\* The last position of the line that position k is on ($ with the m flag
\* matches right after it).
EndOfLine(text, k) ==
    LET terms == { p \in k..Len(text) : text[p] \in LineTerminators }
    IN  IF terms = {} THEN Len(text)
        ELSE (CHOOSE p \in terms : \A q \in terms : p <= q) - 1

\* The match of NAME:\s*(.+)$ that starts at position i, if there is one.
\* \s* takes all the white space it finds, line terminators included; .+
\* takes one character that is no terminator and the rest of its line.  If
\* the white space runs to the end of the text, \s* gives characters back
\* until .+ finds a blank or a tab to take.
MatchAt(text, name, i) ==
    LET j == i + Len(name)
        rest == { p \in j..Len(text) : text[p] \notin WhiteSpace }
        blanks == { p \in j..Len(text) : text[p] \notin LineTerminators }
    IN  IF ~(j - 1 <= Len(text) /\ AtLineStart(text, i)
               /\ toLowerCase(SubSeq(text, i, j - 1)) = toLowerCase(name))
        THEN [ok |-> FALSE]
        ELSE IF rest # {}
        THEN LET w == CHOOSE p \in rest : \A q \in rest : p <= q
             IN  [ok |-> TRUE, start |-> i, group |-> w, end |-> EndOfLine(text, w)]
        ELSE IF blanks # {}
        THEN LET w == CHOOSE p \in blanks : \A q \in blanks : q <= p
             IN  [ok |-> TRUE, start |-> i, group |-> w, end |-> EndOfLine(text, w)]
        ELSE [ok |-> FALSE]

\* The first match in the text (no g flag: only this one is replaced).
FirstMatch(text, name) ==
    LET starts == { i \in 1..Len(text) : MatchAt(text, name, i).ok }
    IN  IF starts = {} THEN [ok |-> FALSE]
        ELSE MatchAt(text, name, CHOOSE i \in starts : \A k \in starts : i <= k)

\* The replacement text with its $ patterns expanded: $$ is a dollar sign,
\* $& the match, $1 the group when the pattern has one.
RECURSIVE ExpandReplacement(_, _, _, _)
ExpandReplacement(repl, matched, group, hasGroup) ==
    IF repl = <<>> THEN <<>>
    ELSE IF repl[1] = "$" /\ Len(repl) >= 2 /\ repl[2] = "$"
    THEN << "$" >> \o ExpandReplacement(SubSeq(repl, 3, Len(repl)), matched, group, hasGroup)
    ELSE IF repl[1] = "$" /\ Len(repl) >= 2 /\ repl[2] = "&"
    THEN matched \o ExpandReplacement(SubSeq(repl, 3, Len(repl)), matched, group, hasGroup)
    ELSE IF repl[1] = "$" /\ Len(repl) >= 2 /\ repl[2] = "1" /\ hasGroup
    THEN group \o ExpandReplacement(SubSeq(repl, 3, Len(repl)), matched, group, hasGroup)
    ELSE << repl[1] >> \o ExpandReplacement(Tail(repl), matched, group, hasGroup)

\* text.replace(/^NAME:\s*.+$/im, repl), with a group when hasGroup.
ReplaceHeader(text, name, repl, hasGroup) ==
    LET m == FirstMatch(text, name)
    IN  IF ~m.ok THEN text
        ELSE SubSeq(text, 1, m.start - 1)
             \o ExpandReplacement(repl, SubSeq(text, m.start, m.end),
                                  SubSeq(text, m.group, m.end), hasGroup)
             \o SubSeq(text, m.end + 1, Len(text))

\* normalizeEmailAddress (validation.ts:7-19)
normalizeEmailAddress(address) ==
    IF address.t = "string" THEN address.s
    ELSE IF Truthy(address.name)
    THEN <<"\"">> \o address.name.s \o <<"\"", " ", "<">> \o address.email \o <<">">>
    ELSE address.email

\* normalizeEmailAddresses (validation.ts:24-29)
normalizeEmailAddresses(addresses) ==
    LET addressArray == IF addresses.t = "array" THEN addresses.items
                        ELSE << addresses >>
    IN  [k \in 1..Len(addressArray) |-> normalizeEmailAddress(addressArray[k])]

\* inbox.ts:241-254: the raw MIME with its From, To and Subject rewritten.
RewriteHeaders(rawBody, options) ==
    LET fromStr == normalizeEmailAddress(options.from)
        toStr == Join(normalizeEmailAddresses(options.to), <<",", " ">>)
        r1 == ReplaceHeader(rawBody, <<"F", "r", "o", "m", ":">>, <<"F", "r", "o", "m", ":", " ">> \o fromStr, FALSE)
        r2 == ReplaceHeader(r1, <<"T", "o", ":">>, <<"T", "o", ":", " ">> \o toStr, FALSE)
    IN  IF Truthy(options.addPrefix)
        THEN ReplaceHeader(r2, <<"S", "u", "b", "j", "e", "c", "t", ":">>,
                           <<"S", "u", "b", "j", "e", "c", "t", ":", " ">> \o options.addPrefix.s \o <<" ", "$", "1">>, TRUE)
        ELSE r2

\* Name <address>, or the address alone (inbox.ts:280, 283, 348-350).
NameAndAddress(a) ==
    IF Truthy(a.name) THEN a.name.s \o <<" ", "<">> \o a.address \o <<">">> ELSE a.address

ForwardBanner == <<"-", "-", "-", "-", "-", "-", "-", "-", "-", "-", " ", "F", "o", "r", "w", "a", "r", "d", "e", "d", " ", "m", "e", "s", "s", "a", "g", "e", " ", "-", "-", "-", "-", "-", "-", "-", "-", "-", "-">>

StringOr(v, default) == IF Truthy(v) THEN v.s ELSE default

\* inbox.ts:274-309: the parameters wrapped forward hands to the composer.
\* No attachments field is passed.
WrappedParams(email, options) ==
    LET prefix == IF options.addPrefix.t = "undefined" THEN <<"F", "w", "d", ":">>
                  ELSE options.addPrefix.s
        fromInfo == <<"F", "r", "o", "m", ":", " ">> \o NameAndAddress(email.from)
        dateInfo == <<"D", "a", "t", "e", ":", " ">> \o email.date
        subjectInfo == <<"S", "u", "b", "j", "e", "c", "t", ":", " ">> \o email.subject
        toInfo == <<"T", "o", ":", " ">> \o Join([k \in 1..Len(email.to) |-> NameAndAddress(email.to[k])],
                                   <<",", " ">>)
        text == IF Truthy(options.text) \/ Truthy(email.text)
                THEN JsString(
                       (IF Truthy(options.text) THEN options.text.s \o <<"\n", "\n">> ELSE <<>>)
                       \o ForwardBanner \o <<"\n">> \o fromInfo \o <<"\n">> \o dateInfo
                       \o <<"\n">> \o subjectInfo \o <<"\n">> \o toInfo \o <<"\n", "\n">>
                       \o StringOr(email.text, <<>>))
                ELSE JsUndefined
        html == IF Truthy(options.html) \/ Truthy(email.html)
                THEN JsString(
                       StringOr(options.html, <<>>)
                       \o <<"<", "b", "r", ">", "<", "b", "r", ">", "<", "d", "i", "v", " ", "s", "t", "y", "l", "e", "=", "\"", "b", "o", "r", "d", "e", "r", "-", "t", "o", "p", ":", "1", "p", "x", " ", "s", "o", "l", "i", "d", " ", "#", "c", "c", "c", ";", "p", "a", "d", "d", "i", "n", "g", "-", "t", "o", "p", ":", "1", "0", "p", "x", "\"", ">", "<", "b", ">">>
                       \o ForwardBanner \o <<"<", "/", "b", ">", "<", "b", "r", ">">> \o fromInfo \o <<"<", "b", "r", ">">> \o dateInfo
                       \o <<"<", "b", "r", ">">> \o subjectInfo \o <<"<", "b", "r", ">">> \o toInfo \o <<"<", "b", "r", ">", "<", "b", "r", ">">>
                       \o StringOr(email.html,
                                   <<"<", "p", "r", "e", ">">> \o StringOr(email.text, <<>>) \o <<"<", "/", "p", "r", "e", ">">>)
                       \o <<"<", "/", "d", "i", "v", ">">>)
                ELSE JsUndefined
    IN  [from |-> options.from, to |-> options.to,
         cc |-> JsUndefined, bcc |-> JsUndefined, replyTo |-> JsUndefined,
         subject |-> prefix \o <<" ">> \o email.subject,
         text |-> text, html |-> html, attachments |-> JsUndefined]

\* replySubject that looks for Re: in this letter case only.
replySubjectCaseSensitive(subject) ==
    IF Len(subject) >= 3 /\ SubSeq(subject, 1, 3) = <<"R", "e", ":">>
    THEN subject ELSE <<"R", "e", ":", " ">> \o subject

\* inbox.ts:345: /^Re:/i.test(email.subject) ? email.subject : `Re: ...`
replySubject(subject) ==
    IF Len(subject) >= 3 /\ toLowerCase(SubSeq(subject, 1, 3)) = <<"r", "e", ":">>
    THEN subject ELSE <<"R", "e", ":", " ">> \o subject

\* inbox.ts:335-342: the threading headers, in insertion order.
customHeaders(email) ==
    IF email.messageId = <<>> THEN <<>>
    ELSE LET existingRefs ==
                 IF email.headers.t = "undefined" THEN <<>>
                 ELSE IF Truthy(email.headers.references) THEN email.headers.references.s
                 ELSE StringOr(email.headers.References, <<>>)
         IN  << Prop(<<"I", "n", "-", "R", "e", "p", "l", "y", "-", "T", "o">>, email.messageId),
                Prop(<<"R", "e", "f", "e", "r", "e", "n", "c", "e", "s">>,
                     IF existingRefs # <<>>
                     THEN existingRefs \o <<" ">> \o email.messageId
                     ELSE email.messageId) >>

\* inbox.ts:335-360: the parameters reply hands to the composer.
ReplyParams(email, options) ==
    [from |-> options.from, to |-> JsString(NameAndAddress(email.from)),
     cc |-> JsUndefined, bcc |-> JsUndefined, replyTo |-> JsUndefined,
     subject |-> replySubject(email.subject),
     text |-> options.text, html |-> options.html,
     attachments |-> options.attachments,
     customHeaders |-> customHeaders(email)]

\* new SendRawEmailCommand for a passthrough forward (inbox.ts:256-261)
PassthroughCommand(rawMime, options) ==
    [RawMessage |-> [Data |-> Utf8Bytes(rawMime)],
     Source |-> normalizeEmailAddress(options.from),
     Destinations |-> normalizeEmailAddresses(options.to)]

\* new SendRawEmailCommand for a composed message (inbox.ts:311-314, 362-365)
RawCommand(rawMessage) == [RawMessage |-> [Data |-> Utf8Bytes(rawMessage)]]

\* What the transport answers to a command.
SesOutcomes ==
    { [kind |-> "ok", MessageId |-> "msg-out-1", requestId |-> "req-ses-1"],
      [kind |-> "ok", MessageId |-> "", requestId |-> ""],
      [kind |-> "error", error |-> SdkError("MessageRejected", "Email address is not verified.", "req-ses-2")],
      [kind |-> "error", error |-> SocketError] }

\* inbox.ts:263-271, 316-324, 367-375: the promise after ses.send.
AfterSend(answer) ==
    IF answer.kind = "ok"
    THEN [state |-> "resolved", messageId |-> answer.MessageId,
          requestId |-> answer.requestId]
    ELSE Rejected(handleError(answer.error))

ParsedKey(emailId) == <<"p", "a", "r", "s", "e", "d", "/">> \o emailId \o <<".", "j", "s", "o", "n">>

(***************************************************************************)
(* The stored messages and the calls of the model.                         *)
(***************************************************************************)
NoHeaders == JsUndefined
EmptyHeaders == [t |-> "object", references |-> JsUndefined, References |-> JsUndefined]
LowerReferences ==
    [t |-> "object", references |-> JsString(<<"<", "r", "1", "@", "x", ">", " ", "<", "r", "2", "@", "x", ">">>), References |-> JsUndefined]
UpperReferences ==
    [t |-> "object", references |-> JsUndefined, References |-> JsString(<<"<", "r", "0", "@", "x", ">">>)]

\* A parsed inbound email (InboxEmail), as parsed/{emailId}.json holds it.
InboxEmail(messageId, headers, subject, fromName) ==
    [emailId |-> <<"e", "m", "a", "i", "l", "-", "1", "2", "3">>, messageId |-> messageId,
     from |-> [address |-> <<"a", "l", "@", "x", ".", "i", "o">>, name |-> fromName],
     to |-> << [address |-> <<"b", "o", "b", "@", "x", ".", "i", "o">>, name |-> JsString(<<"B", "o", "b">>)] >>,
     subject |-> subject, date |-> <<"2", "0", "2", "5", "-", "0", "1", "-", "1", "5">>,
     text |-> JsString(<<"H", "i", " ", "B", "o", "b">>), html |-> JsString(<<"<", "p", ">", "H", "i", " ", "B", "o", "b", "<", "/", "p", ">">>),
     headers |-> headers, rawS3Key |-> <<"r", "a", "w", "/", "a", "b", "c">>]

M1 == <<"<", "m", "1", "@", "x", ">">>

\* The stored messages: the parsed email and the raw MIME of each.  The
\* raw texts are a plain message; one whose body has lines that start with
\* From: and To:; one with an empty From header; one with a folded To
\* header; one without To header whose body has a To: line; one with an
\* empty subject; one whose subject starts with the prefix already; one
\* with lower-case header names and a Reply-To header before To.
StoredMessages ==
    { [email |-> InboxEmail(M1, LowerReferences, <<"H", "e", "l", "l", "o">>, JsString(<<"A", "l", "i", "c", "e">>)),
       raw |-> <<"F", "r", "o", "m", ":", " ", "a", "l", "@", "x", ".", "i", "o", "\r", "\n", "T", "o", ":", " ", "b", "o", "b", "@", "x", ".", "i", "o", "\r", "\n", "S", "u", "b", "j", "e", "c", "t", ":", " ", "H", "e", "l", "l", "o", "\r", "\n", "M", "I", "M", "E", "-", "V", "e", "r", "s", "i", "o", "n", ":", " ", "1", ".", "0", "\r", "\n", "\r", "\n", "H", "i", " ", "B", "o", "b">>],
      [email |-> InboxEmail(M1, EmptyHeaders, <<"R", "e", ":", " ", "X">>, JsUndefined),
       raw |-> <<"F", "r", "o", "m", ":", " ", "a", "l", "@", "x", ".", "i", "o", "\r", "\n", "T", "o", ":", " ", "b", "o", "b", "@", "x", ".", "i", "o", "\r", "\n", "S", "u", "b", "j", "e", "c", "t", ":", " ", "R", "e", ":", " ", "X", "\r", "\n", "\r", "\n", "F", "r", "o", "m", ":", " ", "m", "e", "\r", "\n", "T", "o", ":", " ", "y", "o", "u">>],
      [email |-> InboxEmail(M1, UpperReferences, <<"R", "E", ":", " ", "X">>, JsString(<<"A", "l", "i", "c", "e">>)),
       raw |-> <<"F", "r", "o", "m", ":", "\r", "\n", "T", "o", ":", " ", "b", "o", "b", "@", "x", ".", "i", "o", "\r", "\n", "S", "u", "b", "j", "e", "c", "t", ":", " ", "R", "E", ":", " ", "X", "\r", "\n", "\r", "\n", "H", "i", " ", "B", "o", "b">>],
      [email |-> InboxEmail(<<>>, LowerReferences, <<"r", "e", ":", "x">>, JsString(<<"A", "l", "i", "c", "e">>)),
       raw |-> <<"F", "r", "o", "m", ":", " ", "a", "l", "@", "x", ".", "i", "o", "\r", "\n", "T", "o", ":", " ", "b", "o", "b", "@", "x", ".", "i", "o", ",", "\r", "\n", " ", "e", "v", "e", "@", "x", ".", "i", "o", "\r", "\n", "S", "u", "b", "j", "e", "c", "t", ":", " ", "r", "e", ":", "x", "\r", "\n", "\r", "\n", "H", "i">>],
      [email |-> InboxEmail(M1, NoHeaders, <<" ", "R", "e", ":", " ", "X">>, JsString(<<"A", "l", "i", "c", "e">>)),
       raw |-> <<"F", "r", "o", "m", ":", " ", "a", "l", "@", "x", ".", "i", "o", "\r", "\n", "S", "u", "b", "j", "e", "c", "t", ":", " ", " ", "R", "e", ":", " ", "X", "\r", "\n", "\r", "\n", "T", "o", ":", " ", "y", "o", "u", "\r", "\n", "b", "y", "e">>],
      [email |-> InboxEmail(M1, LowerReferences, <<>>, JsString(<<"A", "l", "i", "c", "e">>)),
       raw |-> <<"F", "r", "o", "m", ":", " ", "a", "l", "@", "x", ".", "i", "o", "\r", "\n", "T", "o", ":", " ", "b", "o", "b", "@", "x", ".", "i", "o", "\r", "\n", "S", "u", "b", "j", "e", "c", "t", ":", " ", "\r", "\n", "X", "-", "A", ":", " ", "1", "\r", "\n", "\r", "\n", "H", "i">>],
      [email |-> InboxEmail(M1, EmptyHeaders, <<"[", "F", "W", "D", "]", " ", "H", "e", "l", "l", "o">>, JsString(<<"A", "l", "i", "c", "e">>)),
       raw |-> <<"F", "r", "o", "m", ":", " ", "a", "l", "@", "x", ".", "i", "o", "\r", "\n", "T", "o", ":", " ", "b", "o", "b", "@", "x", ".", "i", "o", "\r", "\n", "S", "u", "b", "j", "e", "c", "t", ":", " ", "[", "F", "W", "D", "]", " ", "H", "e", "l", "l", "o", "\r", "\n", "\r", "\n", "H", "i">>],
      [email |-> InboxEmail(M1, LowerReferences, <<"R", "e", "p", "l", "y">>, JsString(<<"A", "l", "i", "c", "e">>)),
       raw |-> <<"s", "u", "b", "j", "e", "c", "t", ":", " ", "R", "e", "p", "l", "y", "\r", "\n", "f", "r", "o", "m", ":", " ", "a", "l", "@", "x", ".", "i", "o", "\r", "\n", "R", "e", "p", "l", "y", "-", "T", "o", ":", " ", "a", "l", "@", "x", ".", "i", "o", "\r", "\n", "t", "o", ":", " ", "b", "o", "b", "@", "x", ".", "i", "o", "\r", "\n", "\r", "\n", "H", "i">>] }

PlainStored ==
    CHOOSE m \in StoredMessages : m.email.subject = <<"H", "e", "l", "l", "o">>

\* How the bucket answers the two reads of a call: both succeed, or one of
\* them fails or comes without a body.
Buckets ==
    { [parsed |-> ReadOk(m.email), raw |-> ReadOk(m.raw)] : m \in StoredMessages }
    \cup { [parsed |-> ReadFails(e), raw |-> ReadOk(PlainStored.raw)] : e \in StoreErrors }
    \cup { [parsed |-> ReadOk(PlainStored.email), raw |-> ReadFails(e)] : e \in StoreErrors }
    \cup { [parsed |-> ReadEmpty, raw |-> ReadOk(PlainStored.raw)],
           [parsed |-> ReadOk(PlainStored.email), raw |-> ReadEmpty] }

\* InboxForwardOptions of the model.  passthrough is left out, true or
\* false.
ForwardOptions ==
    [from : { JsString(<<"f", "w", "d", "@", "m", "y", ".", "a", "p", "p">>) },
     to : { JsString(<<"c", "@", "x", ".", "i", "o">>),
            JsArray(<< JsString(<<"c", "@", "x", ".", "i", "o">>), EmailAddress(<<"d", "@", "x", ".", "i", "o">>, JsString(<<"D", "a", "n">>)) >>) },
     passthrough : { "undefined", "true", "false" },
     addPrefix : { JsUndefined, JsString(<<>>), JsString(<<"[", "F", "W", "D", "]">>), JsString(<<"[", "$", "$", "]">>) },
     text : { JsUndefined, JsString(<<"F", "Y", "I">>) },
     html : { JsUndefined }]

\* InboxReplyOptions of the model.
ReplyOptions ==
    [from : { JsString(<<"h", "e", "l", "p", "@", "m", "y", ".", "a", "p", "p">>) },
     text : { JsString(<<"T", "h", "a", "n", "k", "s">>) },
     html : { JsUndefined, JsString(<<"<", "p", ">", "T", "h", "a", "n", "k", "s", "<", "/", "p", ">">>) },
     attachments : { JsUndefined, JsArray(<<>>), JsArray(<< TextAttachment >>) }]

\* ses.send(command) and what follows it (inbox.ts:263-271): the commands
\* the transport received and what the promise settles with.  Without a
\* client the call itself throws, inside the try.
Send(client, command, answer) ==
    IF client = "null"
    THEN [sent |-> <<>>,
          settled |-> Rejected(handleError(
                         PlainError("TypeError", "Cannot read properties of null")))]
    ELSE [sent |-> << command >>, settled |-> AfterSend(answer)]

\* A composed message handed to the transport, or the error the composer
\* threw (it is not caught: inbox.ts:303, 352).
SendBuilt(client, built, answer) ==
    IF built.state = "threw"
    THEN [sent |-> <<>>,
          settled |-> Rejected(PlainError(built.error,
                                          "params.attachments is not iterable"))]
    ELSE Send(client, RawCommand(built.value), answer)

\* forward(emailId, options) in passthrough mode, after requireSES
\* (inbox.ts:230-271).
ForwardPassthrough(client, b, options, answer) ==
    LET email == get(b.parsed)
    IN  IF email.threw
        THEN [s3 |-> << ParsedKey(<<"e", "m", "a", "i", "l", "-", "1", "2", "3">>) >>, sent |-> <<>>,
              settled |-> Rejected(email.error)]
        ELSE LET keys == << ParsedKey(<<"e", "m", "a", "i", "l", "-", "1", "2", "3">>), email.value.rawS3Key >>
             IN  IF b.raw.kind = "error"
                 THEN [s3 |-> keys, sent |-> <<>>, settled |-> Rejected(b.raw.error)]
                 ELSE IF b.raw.kind = "empty" \/ b.raw.body = <<>>
                 THEN [s3 |-> keys, sent |-> <<>>,
                       settled |-> Rejected(PlainError("Error",
                                                       "Empty raw email body from S3"))]
                 ELSE LET r == Send(client,
                                    PassthroughCommand(RewriteHeaders(b.raw.body, options),
                                                       options),
                                    answer)
                      IN  [s3 |-> keys, sent |-> r.sent, settled |-> r.settled]

\* forward(emailId, options) in wrapped mode, after requireSES
\* (inbox.ts:274-325).
ForwardWrapped(client, b, options, e, answer) ==
    LET email == get(b.parsed)
    IN  IF email.threw
        THEN [s3 |-> << ParsedKey(<<"e", "m", "a", "i", "l", "-", "1", "2", "3">>) >>, sent |-> <<>>,
              settled |-> Rejected(email.error)]
        ELSE LET r == SendBuilt(client,
                                buildRawEmailMessage(WrappedParams(email.value, options), e),
                                answer)
             IN  [s3 |-> << ParsedKey(<<"e", "m", "a", "i", "l", "-", "1", "2", "3">>) >>, sent |-> r.sent,
                  settled |-> r.settled]

\* reply(emailId, options) after requireSES (inbox.ts:332-376).
ReplyAfterRequire(client, b, options, e, answer) ==
    LET email == get(b.parsed)
    IN  IF email.threw
        THEN [s3 |-> << ParsedKey(<<"e", "m", "a", "i", "l", "-", "1", "2", "3">>) >>, sent |-> <<>>,
              settled |-> Rejected(email.error)]
        ELSE LET r == SendBuilt(client,
                                buildRawEmailMessage(ReplyParams(email.value, options), e),
                                answer)
             IN  [s3 |-> << ParsedKey(<<"e", "m", "a", "i", "l", "-", "1", "2", "3">>) >>, sent |-> r.sent,
                  settled |-> r.settled]

\* inbox.forward(emailId, options), from the call to the settling of its
\* promise (inbox.ts:226-325).
Forward ==
    /\ pc = "idle"
    /\ bucket # NoCall
    /\ settled = NoCall
    /\ \E options \in ForwardOptions, e \in Entropies, answer \in SesOutcomes :
          LET r == IF requireSES(sesClient).threw
                   THEN [s3 |-> <<>>, sent |-> <<>>,
                         settled |-> Rejected(requireSES(sesClient).error)]
                   ELSE IF options.passthrough # "false"
                   THEN ForwardPassthrough(sesClient, bucket, options, answer)
                   ELSE ForwardWrapped(sesClient, bucket, options, e, answer)
          IN  /\ call' = [op |-> "forward", options |-> options]
              /\ s3Calls' = r.s3
              /\ sesSent' = r.sent
              /\ settled' = r.settled
    /\ UNCHANGED <<sesClient, bucket>>
    /\ UNCHANGED <<batchVars, eventVars, listVars, mimeVars, pairVars, smsVars>>

\* inbox.reply(emailId, options), from the call to the settling of its
\* promise (inbox.ts:330-376).
Reply ==
    /\ pc = "idle"
    /\ bucket # NoCall
    /\ settled = NoCall
    /\ \E options \in ReplyOptions, e \in Entropies, answer \in SesOutcomes :
          LET r == IF requireSES(sesClient).threw
                   THEN [s3 |-> <<>>, sent |-> <<>>,
                         settled |-> Rejected(requireSES(sesClient).error)]
                   ELSE ReplyAfterRequire(sesClient, bucket, options, e, answer)
          IN  /\ call' = [op |-> "reply", options |-> options]
              /\ s3Calls' = r.s3
              /\ sesSent' = r.sent
              /\ settled' = r.settled
    /\ UNCHANGED <<sesClient, bucket>>
    /\ UNCHANGED <<batchVars, eventVars, listVars, mimeVars, pairVars, smsVars>>

InitInbox ==
    /\ BatchIdle
    /\ EventsIdle
    /\ ListIdle
    /\ MimeIdle
    /\ PairIdle
    /\ SmsIdle
    /\ sesClient \in { "client", "null" }
    /\ bucket \in Buckets
    /\ call = NoCall
    /\ s3Calls = <<>>
    /\ sesSent = <<>>
    /\ settled = NoCall

NextInbox == Forward \/ Reply

\* One forward() or reply() call on an inbox with or without SES client,
\* for every stored message and every answer of bucket and transport.
SpecInbox == InitInbox /\ [][NextInbox]_vars

(***************************************************************************)
(* Claims about forward and reply.                                         *)
(***************************************************************************)
\* The raw message of the k-th command the transport received, decoded as
\* a TextDecoder does.
SentRaw(k) == Utf8ToString(sesSent[k].RawMessage.Data)

Called(op) == call # NoCall /\ call.op = op

\* The stored email and raw MIME of the call, when the reads give them.
StoredEmail == bucket.parsed.body
StoredRaw == bucket.raw.body

IsPassthrough == Called("forward") /\ call.options.passthrough # "false"
IsWrapped == Called("forward") /\ call.options.passthrough = "false"

\* The References of the stored email, <<>> if it carries none.
OriginalReferences(email) ==
    IF email.headers.t = "undefined" THEN <<>>
    ELSE IF email.headers.references.t = "string" /\ email.headers.references.s # <<>>
    THEN email.headers.references.s
    ELSE IF email.headers.References.t = "string" THEN email.headers.References.s
    ELSE <<>>

LineSet(lines) == { lines[k] : k \in 1..Len(lines) }

\* C12: the raw message a reply() hands to the transport has, in its header
\* block, the line In-Reply-To: M and the line References: R M (References:
\* M when the original has no References), M being the message-id of the
\* stored message and R its References, whole.
C12_ReplyThreadingHeaders ==
    (Called("reply") /\ Len(sesSent) = 1 /\ StoredEmail.messageId # <<>>) =>
        LET header == LineSet(HeaderBlock(LinesOf(SentRaw(1))))
            M == StoredEmail.messageId
            R == OriginalReferences(StoredEmail)
        IN  /\ (<<"I", "n", "-", "R", "e", "p", "l", "y", "-", "T", "o", ":", " ">> \o M) \in header
            /\ (<<"R", "e", "f", "e", "r", "e", "n", "c", "e", "s", ":", " ">> \o (IF R = <<>> THEN M ELSE R \o <<" ">> \o M)) \in header

\* The reply subject rule as the claim states it.
StartsWithRe(subject) ==
    /\ Len(subject) >= 3
    /\ subject[1] \in { "R", "r" }
    /\ subject[2] \in { "E", "e" }
    /\ subject[3] = ":"

RuledSubject(subject) == IF StartsWithRe(subject) THEN subject ELSE <<"R", "e", ":", " ">> \o subject

C14_NoClientNoCalls ==
    (call # NoCall /\ sesClient = "null") =>
        /\ settled = Rejected(ValidationError)
        /\ s3Calls = <<>>
        /\ sesSent = <<>>

C14_Witness ==
    /\ Called("forward")
    /\ sesClient = "null"
    /\ settled = Rejected(ValidationError)
    /\ s3Calls = <<>>

\* The read of the bucket that failed in the call, if one did.
ParsedReadFailed == bucket.parsed.kind = "error"
RawReadFailed ==
    IsPassthrough /\ bucket.parsed.kind = "ok" /\ bucket.raw.kind = "error"

\* C15: when the read of the parsed or of the raw message fails, forward()
\* and reply() are rejected with the error the bucket raised, itself, and
\* no command goes to the transport.
C15_StoreErrorUnchanged ==
    (call # NoCall /\ sesClient = "client") =>
        /\ ParsedReadFailed =>
              (settled = Rejected(bucket.parsed.error) /\ sesSent = <<>>)
        /\ RawReadFailed =>
              (settled = Rejected(bucket.raw.error) /\ sesSent = <<>>)

\* A passthrough forward that rewrote the stored raw message and handed it
\* to the transport.
PassthroughSent ==
    /\ IsPassthrough
    /\ sesClient = "client"
    /\ bucket.parsed.kind = "ok"
    /\ bucket.raw.kind = "ok"
    /\ Len(sesSent) = 1

\* Whether a line is the header line of the name (letter case set aside).
IsHeaderLine(line, name) ==
    Len(line) >= Len(name) /\ toLowerCase(SubSeq(line, 1, Len(name))) = toLowerCase(name)

\* C16: a passthrough forward changes the From: line, the To: line and,
\* with a prefix, the Subject: line of the header block; every other line
\* of the original reaches the transport unchanged, at its place.
C16_PassthroughFrame ==
    PassthroughSent =>
        LET original == LinesOf(StoredRaw)
            forwarded == LinesOf(SentRaw(1))
            headerLen == Len(HeaderBlock(original))
        IN  /\ Len(forwarded) = Len(original)
            /\ \A k \in 1..Len(original) :
                  forwarded[k] # original[k] =>
                      /\ k <= headerLen
                      /\ \/ IsHeaderLine(original[k], <<"F", "r", "o", "m", ":">>)
                         \/ IsHeaderLine(original[k], <<"T", "o", ":">>)
                         \/ /\ Truthy(call.options.addPrefix)
                            /\ IsHeaderLine(original[k], <<"S", "u", "b", "j", "e", "c", "t", ":">>)

\* The value of a header line: what follows the name and the blanks after
\* it.
ValueOfHeaderLine(line, name) ==
    LET text == { p \in (Len(name) + 1)..Len(line) : line[p] \notin { " ", "\t" } }
    IN  IF text = {} THEN <<>>
        ELSE SubSeq(line, CHOOSE p \in text : \A q \in text : p <= q, Len(line))

\* C17: a passthrough forward with prefix P turns the header line
\* Subject: S into Subject: P S, for every S; forwarding the result again
\* with the same prefix gives Subject: P P S.
C17_PrefixNotIdempotent ==
    (PassthroughSent /\ Truthy(call.options.addPrefix)) =>
        LET original == HeaderBlock(LinesOf(StoredRaw))
            once == LineSet(HeaderBlock(LinesOf(SentRaw(1))))
            twice == LineSet(HeaderBlock(LinesOf(RewriteHeaders(SentRaw(1), call.options))))
            P == call.options.addPrefix.s
        IN  \A k \in 1..Len(original) :
               IsHeaderLine(original[k], <<"S", "u", "b", "j", "e", "c", "t", ":">>) =>
                   LET S == ValueOfHeaderLine(original[k], <<"S", "u", "b", "j", "e", "c", "t", ":">>)
                   IN  /\ (<<"S", "u", "b", "j", "e", "c", "t", ":", " ">> \o P \o <<" ">> \o S) \in once
                       /\ (<<"S", "u", "b", "j", "e", "c", "t", ":", " ">> \o P \o <<" ">> \o P \o <<" ">> \o S) \in twice

\* C18: a wrapped forward composes a new message whose subject is the
\* prefix (Fwd: when none is given), a space and the original subject, and
\* hands it to the transport in one call.
C18_WrappedForwardSent ==
    (IsWrapped /\ sesClient = "client" /\ bucket.parsed.kind = "ok") =>
        /\ Len(sesSent) = 1
        /\ LET prefix == IF call.options.addPrefix.t = "undefined" THEN <<"F", "w", "d", ":">>
                         ELSE call.options.addPrefix.s
           IN  HeaderValues(HeaderBlock(LinesOf(SentRaw(1))), <<"S", "u", "b", "j", "e", "c", "t", ":", " ">>)
                   = { prefix \o <<" ">> \o StoredEmail.subject }


\* C21: every line terminator of a built message is CRLF; the message has
\* no LF that does not follow a CR, whatever line breaks the text and html
\* of the caller hold.
C21_OnlyCRLF ==
    (message # NoCall /\ message.state = "returned") =>
        \A i \in 1..Len(message.value) :
            message.value[i] = "\n" => (i > 1 /\ message.value[i - 1] = "\r")


(***************************************************************************)
(* buildRawEmailMessage on attachments of every length, on display names   *)
(* with quotes and backslashes, and on bodies that hold a boundary.        *)
(***************************************************************************)
\* The longest attachment content, in bytes, and the longest display name.
MaxContent == 120
MaxNameLen == 3

\* A content of n bytes.
ContentOfLen(n) == [k \in 1..n |-> (k * 37) % 256]

BinAttachment(content) ==
    [filename |-> <<"f", ".", "b", "i", "n">>, content |-> content,
     contentType |-> JsUndefined, encoding |-> JsUndefined]

\* Attachments with the default transfer encoding: a Buffer of every length
\* up to MaxContent, and for some lengths the same bytes as a base64 string,
\* in one line and broken into lines.
SizedAttachments ==
    { BinAttachment(Buffer(ContentOfLen(n))) : n \in 0..MaxContent }
    \cup { BinAttachment(JsString(Base64Encode(ContentOfLen(n)))) :
             n \in { 1, 57, 58, MaxContent } }
    \cup { BinAttachment(JsString(SplitLines76(Base64Encode(ContentOfLen(n))))) :
             n \in { 58, MaxContent } }

PlainParams(from, text, html, attachments) ==
    [from |-> from, to |-> JsString(<<"r", "@", "x", ".", "i", "o">>),
     cc |-> JsUndefined, bcc |-> JsUndefined, replyTo |-> JsUndefined,
     subject |-> <<"H", "i">>, text |-> text, html |-> html,
     attachments |-> JsArray(attachments)]

\* Display names: every text of up to MaxNameLen characters out of a
\* letter, a space, the backslash and the double quote.
NameChars == { "a", " ", "\\", "\"" }
Names == SeqsOf(NameChars, 1, MaxNameLen)

\* Bodies that hold a line a generated boundary could make a delimiter.
BoundaryLikeBodies ==
    { <<"s", "e", "e", "\r", "\n", "-", "-", "m", "a", "i", "n", "_", "2", "_", "\r", "\n", "b", "y", "e">>, <<"-", "-", "a", "l", "t", "_", "1", "_", "k", "3", "-", "-">>, <<"m", "a", "i", "n", "_", "1", "_", "k", "3">> }

SevenBitAttachment(content) ==
    [filename |-> <<"n", "o", "t", "e", "s">>, content |-> JsString(content),
     contentType |-> JsUndefined, encoding |-> JsString(<<"7", "b", "i", "t">>)]

\* The calls: the parameters and what clock and random generator give.
ComposeCalls ==
    { [params |-> PlainParams(JsString(<<"s", "@", "x", ".", "i", "o">>), JsString(<<"H", "e", "l", "l", "o">>), JsUndefined, << a >>),
       entropy |-> e] : a \in SizedAttachments, e \in { CHOOSE x \in Entropies : x.mainRandom = <<>> } }
    \cup { [params |-> PlainParams(EmailAddress(<<"s", "@", "x", ".", "i", "o">>, JsString(n)),
                                   JsString(<<"H", "e", "l", "l", "o">>), JsUndefined, <<>>),
            entropy |-> e] : n \in Names, e \in { CHOOSE x \in Entropies : x.mainRandom = <<>> } }
    \cup { [params |-> PlainParams(JsString(<<"s", "@", "x", ".", "i", "o">>), JsString(b), JsString(<<"<", "p", ">", "H", "i", "<", "/", "p", ">">>),
                                   <<>>),
            entropy |-> e] : b \in BoundaryLikeBodies, e \in Entropies }
    \cup { [params |-> PlainParams(JsString(<<"s", "@", "x", ".", "i", "o">>), JsString(<<"H", "e", "l", "l", "o">>), JsString(b), <<>>),
            entropy |-> e] : b \in BoundaryLikeBodies, e \in Entropies }
    \cup { [params |-> PlainParams(JsString(<<"s", "@", "x", ".", "i", "o">>), JsString(<<"H", "e", "l", "l", "o">>), JsUndefined,
                                   << SevenBitAttachment(b) >>),
            entropy |-> e] : b \in BoundaryLikeBodies, e \in Entropies }

InitCompose ==
    /\ BatchIdle
    /\ EventsIdle
    /\ ListIdle
    /\ InboxIdle
    /\ PairIdle
    /\ SmsIdle
    /\ \E c \in ComposeCalls : params = c.params /\ entropy = c.entropy
    /\ message = NoCall

\* One call of buildRawEmailMessage for each of these calls.
SpecCompose == InitCompose /\ [][NextMime]_vars

\* The lines of the content of the attachment part that opens at line o:
\* what stands between the empty line after the part's header and the next
\* empty line.
ContentLines(lines, o) ==
    LET first == o + 5
        ends == { k \in first..Len(lines) : lines[k] = <<>> }
        last == (CHOOSE k \in ends : \A j \in ends : k <= j) - 1
    IN  SubSeq(lines, first, last)

AttachmentBytes(attachment) ==
    IF attachment.content.t = "string" THEN Base64Decode(attachment.content.s)
    ELSE attachment.content.bytes

Base64Attachment(attachment) ==
    ~Truthy(attachment.encoding) \/ attachment.encoding.s = <<"b", "a", "s", "e", "6", "4">>

\* C22: for every attachment with the default (base64) transfer encoding,
\* each line of its encoded content in the built message has at most 76
\* characters and each line but the last exactly 76; the lines together
\* are the base64 text of the content.
C22_Base64Lines76 ==
    (message # NoCall /\ message.state = "returned") =>
        LET lines == LinesOf(message.value)
            openers == AttachmentOpeners(lines)
        IN  \A o \in openers :
               LET nth == Cardinality({ q \in openers : q <= o })
                   attachment == params.attachments.items[nth]
                   content == ContentLines(lines, o)
               IN  Base64Attachment(attachment) =>
                      /\ \A k \in 1..Len(content) : Len(content[k]) <= 76
                      /\ \A k \in 1..(Len(content) - 1) : Len(content[k]) = 76
                      /\ Concat(content) = Base64Encode(AttachmentBytes(attachment))

C22_Witness ==
    /\ message # NoCall
    /\ message.state = "returned"
    /\ Len(params.attachments.items) = 1
    /\ Base64Attachment(params.attachments.items[1])
    /\ Len(AttachmentBytes(params.attachments.items[1])) = MaxContent
    /\ \E o \in AttachmentOpeners(LinesOf(message.value)) :
          LET content == ContentLines(LinesOf(message.value), o)
          IN  /\ Len(content) = 3
              /\ Len(content[1]) = 76
              /\ Len(content[2]) = 76
              /\ Len(content[3]) < 76

\* The backslashes of a rendered name that were added: those that an even
\* number of backslashes precedes directly.
AddedBackslashes(rendered) ==
    { p \in 1..Len(rendered) :
        /\ rendered[p] = "\\"
        /\ LET run == { q \in 1..(p - 1) : \A j \in q..(p - 1) : rendered[j] = "\\" }
           IN  Cardinality(run) % 2 = 0 }

\* The rendered name without its added backslashes.
Unescaped(rendered) == Filter(rendered, (1..Len(rendered)) \ AddedBackslashes(rendered))

\* What stands between From: " and " <s@x.io> in the From line.
RenderedName(line) ==
    SubSeq(line, Len(<<"F", "r", "o", "m", ":", " ", "\"">>) + 1, Len(line) - Len(<<"\"", " ", "<", "s", "@", "x", ".", "i", "o", ">">>))

\* C23: a named address is rendered as the name in double quotes followed
\* by <addr>, each backslash and each double quote of the name having one
\* added backslash before it; taking the added backslashes away gives the
\* name back.
C23_NameEscapeRoundTrip ==
    (/\ message # NoCall
     /\ message.state = "returned"
     /\ params.from.t = "EmailAddress"
     /\ Truthy(params.from.name)) =>
        LET line == LinesOf(message.value)[1]
            name == params.from.name.s
            rendered == RenderedName(line)
            added == AddedBackslashes(rendered)
        IN  /\ line = <<"F", "r", "o", "m", ":", " ", "\"">> \o rendered \o <<"\"", " ", "<", "s", "@", "x", ".", "i", "o", ">">>
            /\ Unescaped(rendered) = name
            /\ Cardinality(added) = Cardinality({ k \in 1..Len(name) : name[k] \in { "\\", "\"" } })
            /\ \A p \in 1..Len(rendered) :
                  /\ p \in added =>
                        (p < Len(rendered) /\ rendered[p + 1] \in { "\\", "\"" })
                  /\ (rendered[p] \in { "\\", "\"" } /\ p \notin added) =>
                        (p - 1) \in added

C23_Witness ==
    /\ message # NoCall
    /\ message.state = "returned"
    /\ params.from.t = "EmailAddress"
    /\ params.from.name = JsString(<<"a", "\\", "\"">>)
    /\ LinesOf(message.value)[1] = <<"F", "r", "o", "m", ":", " ", "\"", "a", "\\", "\\", "\\", "\"", "\"", " ", "<", "s", "@", "x", ".", "i", "o", ">">>

\* Whether the text holds the token somewhere.
Contains(text, token) ==
    \E p \in 1..(Len(text) - Len(token) + 1) :
        SubSeq(text, p, p + Len(token) - 1) = token

\* What the caller supplied as bodies: the text, the html and the content
\* of the attachments that are not base64 encoded.
SuppliedBodies(p) ==
    (IF p.text.t = "string" THEN { p.text.s } ELSE {})
    \cup (IF p.html.t = "string" THEN { p.html.s } ELSE {})
    \cup { p.attachments.items[k].content.s :
             k \in { j \in 1..Len(p.attachments.items) :
                       /\ ~Base64Attachment(p.attachments.items[j])
                       /\ p.attachments.items[j].content.t = "string" } }

OuterBoundary == generateBoundary(<<"m", "a", "i", "n">>, entropy.mainNow, entropy.mainRandom)
InnerBoundary == generateBoundary(<<"a", "l", "t">>, entropy.altNow, entropy.altRandom)

BoundariesDiffer == OuterBoundary # InnerBoundary

\* C24: in every message built, neither generated boundary occurs in the
\* text, the html or the content of a non-base64 attachment of the caller,
\* and the outer and the inner boundary differ.
C24_BoundariesNotInBodies ==
    (message # NoCall /\ message.state = "returned") =>
        /\ \A b \in SuppliedBodies(params) :
              ~Contains(b, OuterBoundary) /\ ~Contains(b, InnerBoundary)
        /\ BoundariesDiffer

\* The second half of C24 alone.
OuterInnerAlwaysDiffer ==
    (message # NoCall /\ message.state = "returned") => BoundariesDiffer


(***************************************************************************)
(* Further claims about sendBatch.                                         *)
(***************************************************************************)
\* What the settling of the call for window w (1-based) pushed.
PushedFor(w) ==
    ChunkResults(Slice(resolved, CHUNK_SIZE * (w - 1), CHUNK_SIZE * w),
                 CHUNK_SIZE * (w - 1), sesReplies[w]).pushed

\* C25: sendBatch hands its windows to the transport one at a time, in the
\* order of the entries: a call is in flight only while sendBatch awaits
\* it, never two, the call for a window starts after the calls for the
\* windows before it were answered, and the results stand in the output
\* window after window.
C25_OneWindowAtATime ==
    /\ Len(sesCalls) - Len(sesReplies) \in { 0, 1 }
    /\ (Len(sesCalls) > Len(sesReplies)) <=> (pc = "awaiting")
    /\ \A w \in 1..Len(sesCalls) :
          \A k \in 1..Len(sesCalls[w]) :
              sesCalls[w][k] = entries[CHUNK_SIZE * (w - 1) + k].to
    /\ allResults = Concat([w \in 1..Len(sesReplies) |-> PushedFor(w)])
    /\ outcome.state = "fulfilled" => outcome.results = allResults

C25_Witness ==
    /\ pc = "done"
    /\ Len(entries) = 100
    /\ Len(sesCalls) = 2
    /\ sesReplies[1].kind = "ok"
    /\ sesReplies[1].len = 50
    /\ sesReplies[2].kind = "plain_error"
    /\ outcome.state = "fulfilled"
    /\ outcome.results[50].status = "success"
    /\ outcome.results[51].index = 50
    /\ outcome.results[51].status = "failure"

\* C29: in every result of sendBatch each result has the status success or
\* failure, successCount and failureCount are the numbers of results of
\* either status, and they add up to the number of results.
C29_CountsPartitionResults ==
    outcome.state = "fulfilled" =>
        LET res == outcome.results
            With(status) == { p \in 1..Len(res) : res[p].status = status }
        IN  /\ \A p \in 1..Len(res) : res[p].status \in { "success", "failure" }
            /\ outcome.successCount = Cardinality(With("success"))
            /\ outcome.failureCount = Cardinality(With("failure"))
            /\ outcome.successCount + outcome.failureCount = Len(res)

C29_Witness ==
    /\ outcome.state = "fulfilled"
    /\ Len(entries) = 51
    /\ sesReplies[1].pattern = "alternate"
    /\ sesReplies[1].len = 50
    /\ sesReplies[2].kind = "sdk_error"
    /\ outcome.successCount = 25
    /\ outcome.failureCount = 26


(***************************************************************************)
(* Further claims about events.list.                                       *)
(***************************************************************************)
\* The messageIds of the items of a page.
MessageIdsOf(items) == { items[p].messageId : p \in 1..Len(items) }

\* How often the event stands in the events of a status, and how often an
\* item of the messageId gives that event.
TimesInStatus(status, event) ==
    Cardinality({ k \in 1..Len(status.events) : status.events[k] = event })
TimesInPage(items, mid, event) ==
    Cardinality({ p \in 1..Len(items) :
                    items[p].messageId = mid /\ EventOfItem(items[p]) = event })

\* C26: list() returns one EmailStatus per messageId of the page's items,
\* no messageId twice; each status has one event per item of its messageId
\* and no other, so that the event counts add up to the number of items.
C26_OneStatusPerMessageId ==
    (listed # NoCall /\ listed.state = "resolved") =>
        LET items == listResp.Items
            emails == listed.emails
            slots == { s \in (1..Len(emails)) \X (1..Len(items)) :
                         s[2] <= Len(emails[s[1]].events) }
        IN  /\ { emails[g].messageId : g \in 1..Len(emails) } = MessageIdsOf(items)
            /\ Len(emails) = Cardinality(MessageIdsOf(items))
            /\ \A g \in 1..Len(emails) :
                  /\ Len(emails[g].events)
                        = Cardinality({ p \in 1..Len(items) :
                                          items[p].messageId = emails[g].messageId })
                  /\ \A p \in 1..Len(items) :
                        items[p].messageId = emails[g].messageId =>
                            TimesInStatus(emails[g], EventOfItem(items[p]))
                                = TimesInPage(items, emails[g].messageId,
                                              EventOfItem(items[p]))
            /\ Cardinality(slots) = Len(items)

C26_Witness ==
    /\ listed # NoCall
    /\ listed.state = "resolved"
    /\ Len(listResp.Items) = 3
    /\ listResp.Items[1].messageId = "msg-1"
    /\ listResp.Items[2].messageId = "msg-2"
    /\ listResp.Items[3].messageId = "msg-1"
    /\ listResp.Items[1] # listResp.Items[3]
    /\ Len(listed.emails) = 2
    /\ Len(listed.emails[1].events) = 2
    /\ Len(listed.emails[2].events) = 1


(***************************************************************************)
(* Paging with events.list: a caller that passes the nextToken of a page   *)
(* back as continuationToken.                                              *)
(***************************************************************************)
\* How many pages the caller asks for, at most.
MaxPages == 3

\* LastEvaluatedKey of a page: absent, a key of the index, and a key whose
\* strings hold a quote, a backslash and a space.
PageKeys ==
    { JsUndefined,
      IndexKey(1700),
      JsObject(<< Prop(<<"a", "c", "c", "o", "u", "n", "t", "I", "d">>, JsString(<<"a", "\"", "b", "\\", "c", " ", "d">>)),
                  Prop(<<"s", "e", "n", "t", "A", "t">>, JsNumber(0)),
                  Prop(<<"m", "e", "s", "s", "a", "g", "e", "I", "d">>, JsString(<<"<", "m", "1", "@", "x", ">">>)) >>) }

\* How the table answers the query for a page.
PageResponses ==
    { [kind |-> "ok", Items |-> items, LastEvaluatedKey |-> k] :
          items \in { <<>>, << ListItem("msg-1", T_Send, 1) >> }, k \in PageKeys }
    \cup { [kind |-> "sdk_error"], [kind |-> "plain_error"] }

\* The options of the first call: no continuation token.
FirstPageOptions == { o \in ListOptions : o.accountId # "" /\ o.continuationToken.t = "undefined" }

\* The caller takes the nextToken of the page it was given and calls list()
\* again with it as continuationToken, the other options unchanged
\* (events.ts:84-159 for that call).
ListNextPage ==
    /\ pc = "idle"
    /\ listed # NoCall
    /\ listed.state = "resolved"
    /\ listed.nextToken.t = "string"
    /\ Len(queries) < MaxPages
    /\ \E answer \in PageResponses :
          LET options == [listOpts EXCEPT !.continuationToken = listed.nextToken]
              key == DecodeToken(options.continuationToken)
          IN  /\ listOpts' = options
              /\ listResp' = answer
              /\ IF key.threw
                 THEN /\ listed' = Rejected("ValidationError")
                      /\ UNCHANGED queries
                 ELSE LET r == AnswerTo(key.value, answer)
                      IN  /\ queries' = Append(queries, QueryCommand(options, key.value))
                          /\ listed' = IF r.kind = "ok" THEN ListResult(r)
                                       ELSE Rejected(handleDynamoDBError(r.kind))
    /\ UNCHANGED <<batchVars, eventVars, inboxVars, mimeVars, pairVars, smsVars>>

InitPaging ==
    /\ BatchIdle
    /\ EventsIdle
    /\ InboxIdle
    /\ MimeIdle
    /\ PairIdle
    /\ SmsIdle
    /\ listOpts \in FirstPageOptions
    /\ listResp \in PageResponses
    /\ queries = <<>>
    /\ listed = NoCall

NextPaging == List \/ ListNextPage

\* A first list() call and the calls for the pages after it.
SpecPaging == InitPaging /\ [][NextPaging]_vars

\* The caller asks for the next page: the token of the page at hand goes
\* into the options.
AsksNextPage ==
    /\ listed # NoCall
    /\ listed.state = "resolved"
    /\ listed.nextToken.t = "string"
    /\ listOpts' # listOpts

TokenAbsentIffNoKey ==
    (listed # NoCall /\ listed.state = "resolved") =>
        ((listed.nextToken.t = "undefined") <=> (listResp.LastEvaluatedKey.t = "undefined"))

StartKeyIsLastKey ==
    AsksNextPage =>
        /\ listOpts'.continuationToken = listed.nextToken
        /\ Len(queries') = Len(queries) + 1
        /\ queries'[Len(queries')].ExclusiveStartKey = listResp.LastEvaluatedKey

\* C27: the nextToken of a page, passed back unchanged as continuationToken,
\* is decoded to the LastEvaluatedKey the table gave with that page, and
\* that key is the ExclusiveStartKey of the next query; a page has no
\* nextToken iff the table gave no LastEvaluatedKey.
C27_TokenRoundTrip ==
    /\ []TokenAbsentIffNoKey
    /\ [][StartKeyIsLastKey]_vars

C27_Witness ==
    /\ Len(queries) = 3
    /\ queries[1].ExclusiveStartKey = JsUndefined
    /\ queries[2].ExclusiveStartKey = IndexKey(1700)
    /\ queries[3].ExclusiveStartKey.t = "object"
    /\ Len(queries[3].ExclusiveStartKey.props) = 3
    /\ queries[3].ExclusiveStartKey.props[1].value = JsString(<<"a", "\"", "b", "\\", "c", " ", "d">>)
    /\ listed.state = "resolved"

(***************************************************************************)
(* WrapsSMS.sendBatch (packages/sms/src/client.ts) with the validation of  *)
(* packages/sms/src/utils/validation.ts.                                   *)
(***************************************************************************)

\* The most messages of a batch.
MaxSms == 2

\* AWS limit on the length of a message (validation.ts:94, 160).
MaxMessageLength == 1600

\* The length of a message above which it takes several segments, and the
\* length of a segment then (validation.ts:60-63).
SingleSegment == 160
MultiSegment == 153

\* E164_REGEX = /^\+[1-9]\d{1,14}$/
E164_REGEX(s) ==
    /\ Len(s) >= 3
    /\ Len(s) <= 16
    /\ s[1] = "+"
    /\ IsDigit(s[2])
    /\ s[2] # "0"
    /\ \A k \in 3..Len(s) : IsDigit(s[k])

\* new ValidationError(message, field) of the sms package
SmsValidationError(text, field) ==
    [t |-> "error", name |-> <<"V", "a", "l", "i", "d", "a", "t", "i", "o", "n", "E", "r", "r", "o", "r">>, message |-> text, field |-> field]

\* new SMSError(message, code, requestId, retryable)
SMSError(text, code, requestId, retryable) ==
    [t |-> "error", name |-> <<"S", "M", "S", "E", "r", "r", "o", "r">>, message |-> text, code |-> code,
     requestId |-> requestId, retryable |-> retryable]

\* new OptedOutError(phoneNumber)
OptedOutError(phoneNumber) ==
    [t |-> "error", name |-> <<"O", "p", "t", "e", "d", "O", "u", "t", "E", "r", "r", "o", "r">>,
     message |-> <<"P", "h", "o", "n", "e", " ", "n", "u", "m", "b", "e", "r", " ">> \o phoneNumber
                     \o <<" ", "h", "a", "s", " ", "o", "p", "t", "e", "d", " ", "o", "u", "t", " ", "o", "f", " ", "r", "e", "c", "e", "i", "v", "i", "n", "g", " ", "m", "e", "s", "s", "a", "g", "e", "s">>,
     phoneNumber |-> phoneNumber]

\* new Error(message)
NativeError(text) == [t |-> "error", name |-> <<"E", "r", "r", "o", "r">>, message |-> text]

\* What a validation gives: nothing, or the error it throws.
Passes == [threw |-> FALSE]
Throws(error) == [threw |-> TRUE, error |-> error]

\* The first of the checks that throws, in the order the code makes them.
RECURSIVE FirstThrow(_)
FirstThrow(checks) ==
    IF checks = <<>> THEN Passes
    ELSE IF Head(checks).threw THEN Head(checks)
    ELSE FirstThrow(Tail(checks))

validatePhoneNumber(phoneNumber, field) ==
    IF phoneNumber.t = "string" /\ E164_REGEX(phoneNumber.s) THEN Passes
    ELSE Throws(SmsValidationError(
             <<"I", "n", "v", "a", "l", "i", "d", " ", "p", "h", "o", "n", "e", " ", "n", "u", "m", "b", "e", "r", " ", "f", "o", "r", "m", "a", "t", " ", "i", "n", " ", "f", "i", "e", "l", "d", ":", " ">> \o field
                 \o <<".", " ", "E", "x", "p", "e", "c", "t", "e", "d", " ", "E", ".", "1", "6", "4", " ", "f", "o", "r", "m", "a", "t", " ", "(", "e", ".", "g", ".", ",", " ", "+", "1", "4", "1", "5", "5", "5", "5", "1", "2", "3", "4", ")", ",", " ", "g", "o", "t", ":", " ">>
                 \o (IF phoneNumber.t = "string" THEN phoneNumber.s ELSE <<"u", "n", "d", "e", "f", "i", "n", "e", "d">>),
             field))

\* options.from?.startsWith('+')
FromLooksLikeNumber(from) ==
    from.t = "string" /\ Len(from.s) >= 1 /\ from.s[1] = "+"

\* calculateSegments for a message of 7 bit characters.
calculateSegments(text) ==
    IF Len(text) <= SingleSegment THEN 1
    ELSE (Len(text) + MultiSegment - 1) \div MultiSegment

\* validateSendOptions for the options sendBatch passes: these have neither
\* maxPrice nor ttl (client.ts:171-178), so the checks of validation.ts
\* 102-117 do nothing.
validateSendOptions(options) ==
    FirstThrow(<<
        IF ~Truthy(options.to)
        THEN Throws(SmsValidationError(<<"M", "i", "s", "s", "i", "n", "g", " ", "r", "e", "q", "u", "i", "r", "e", "d", " ", "f", "i", "e", "l", "d", ":", " ", "t", "o">>, <<"t", "o">>))
        ELSE Passes,
        IF ~Truthy(options.message)
        THEN Throws(SmsValidationError(<<"M", "i", "s", "s", "i", "n", "g", " ", "r", "e", "q", "u", "i", "r", "e", "d", " ", "f", "i", "e", "l", "d", ":", " ", "m", "e", "s", "s", "a", "g", "e">>, <<"m", "e", "s", "s", "a", "g", "e">>))
        ELSE Passes,
        validatePhoneNumber(options.to, <<"t", "o">>),
        IF Truthy(options.from) /\ FromLooksLikeNumber(options.from)
        THEN validatePhoneNumber(options.from, <<"f", "r", "o", "m">>)
        ELSE Passes,
        IF options.message.t = "string" /\ Len(options.message.s) > MaxMessageLength
        THEN Throws(SmsValidationError(
                 <<"M", "e", "s", "s", "a", "g", "e", " ", "e", "x", "c", "e", "e", "d", "s", " ", "m", "a", "x", "i", "m", "u", "m", " ", "l", "e", "n", "g", "t", "h", " ", "o", "f", " ", "1", "6", "0", "0", " ", "c", "h", "a", "r", "a", "c", "t", "e", "r", "s", " ", "(", "g", "o", "t", " ">>
                     \o NumberToString(Len(options.message.s)) \o <<")">>,
                 <<"m", "e", "s", "s", "a", "g", "e">>))
        ELSE Passes,
        IF Truthy(options.messageType)
           /\ options.messageType.s \notin { <<"T", "R", "A", "N", "S", "A", "C", "T", "I", "O", "N", "A", "L">>, <<"P", "R", "O", "M", "O", "T", "I", "O", "N", "A", "L">> }
        THEN Throws(SmsValidationError(
                 <<"m", "e", "s", "s", "a", "g", "e", "T", "y", "p", "e", " ", "m", "u", "s", "t", " ", "b", "e", " ", "e", "i", "t", "h", "e", "r", " ", "\"", "T", "R", "A", "N", "S", "A", "C", "T", "I", "O", "N", "A", "L", "\"", " ", "o", "r", " ", "\"", "P", "R", "O", "M", "O", "T", "I", "O", "N", "A", "L", "\"">>,
                 <<"m", "e", "s", "s", "a", "g", "e", "T", "y", "p", "e">>))
        ELSE Passes
    >>)

\* The checks validateBatchOptions makes of the message at a position.
validateBatchMessage(msg, index) ==
    LET at == <<"m", "e", "s", "s", "a", "g", "e", "s", "[">> \o NumberToString(index) \o <<"]">>
    IN  FirstThrow(<<
            IF ~Truthy(msg.to)
            THEN Throws(SmsValidationError(<<"M", "i", "s", "s", "i", "n", "g", " ", "r", "e", "q", "u", "i", "r", "e", "d", " ", "f", "i", "e", "l", "d", ":", " ">> \o at \o <<".", "t", "o">>,
                                        at \o <<".", "t", "o">>))
            ELSE Passes,
            IF ~Truthy(msg.message)
            THEN Throws(SmsValidationError(<<"M", "i", "s", "s", "i", "n", "g", " ", "r", "e", "q", "u", "i", "r", "e", "d", " ", "f", "i", "e", "l", "d", ":", " ">> \o at \o <<".", "m", "e", "s", "s", "a", "g", "e">>,
                                        at \o <<".", "m", "e", "s", "s", "a", "g", "e">>))
            ELSE Passes,
            validatePhoneNumber(msg.to, at \o <<".", "t", "o">>),
            IF msg.message.t = "string" /\ Len(msg.message.s) > MaxMessageLength
            THEN Throws(SmsValidationError(
                     at \o <<".", "m", "e", "s", "s", "a", "g", "e", " ", "e", "x", "c", "e", "e", "d", "s", " ", "m", "a", "x", "i", "m", "u", "m", " ", "l", "e", "n", "g", "t", "h", " ", "o", "f", " ", "1", "6", "0", "0", " ", "c", "h", "a", "r", "a", "c", "t", "e", "r", "s">>,
                     at \o <<".", "m", "e", "s", "s", "a", "g", "e">>))
            ELSE Passes
        >>)

validateBatchOptions(options) ==
    IF options.messages.t # "array"
    THEN Throws(SmsValidationError(<<"M", "i", "s", "s", "i", "n", "g", " ", "r", "e", "q", "u", "i", "r", "e", "d", " ", "f", "i", "e", "l", "d", ":", " ", "m", "e", "s", "s", "a", "g", "e", "s", " ", "(", "m", "u", "s", "t", " ", "b", "e", " ", "a", "n", " ", "a", "r", "r", "a", "y", ")">>,
                                <<"m", "e", "s", "s", "a", "g", "e", "s">>))
    ELSE IF Len(options.messages.items) = 0
    THEN Throws(SmsValidationError(<<"m", "e", "s", "s", "a", "g", "e", "s", " ", "a", "r", "r", "a", "y", " ", "c", "a", "n", "n", "o", "t", " ", "b", "e", " ", "e", "m", "p", "t", "y">>, <<"m", "e", "s", "s", "a", "g", "e", "s">>))
    ELSE FirstThrow(
             [k \in 1..Len(options.messages.items) |->
                 validateBatchMessage(options.messages.items[k], k - 1)]
             \o << IF FromLooksLikeNumber(options.from)
                   THEN validatePhoneNumber(options.from, <<"f", "r", "o", "m">>)
                   ELSE Passes >>)

\* err.message.match(/\+\d+/): the leftmost + that a digit follows, with
\* the digits after it; <<>> without one.
PhoneMatch(text) ==
    LET starts == { p \in 1..(Len(text) - 1) : text[p] = "+" /\ IsDigit(text[p + 1]) }
    IN  IF starts = {} THEN <<>>
        ELSE LET p == CHOOSE q \in starts : \A r \in starts : q <= r
                 stop == { q \in (p + 1)..Len(text) : ~IsDigit(text[q]) }
                 last == IF stop = {} THEN Len(text)
                         ELSE (CHOOSE q \in stop : \A r \in stop : q <= r) - 1
             IN  SubSeq(text, p, last)

\* What the transport rejects with: an exception of the SDK, which is an
\* Error with $metadata, or an Error without (a network failure).
SdkException(name, text, requestId, throttling) ==
    [t |-> "error", name |-> name, message |-> text,
     metadata |-> [requestId |-> requestId], throttling |-> throttling]

HasMetadata(error) == "metadata" \in DOMAIN error

handleSMSError(error) ==
    IF /\ error.name = <<"C", "o", "n", "f", "l", "i", "c", "t", "E", "x", "c", "e", "p", "t", "i", "o", "n">>
       /\ Contains(error.message, <<"o", "p", "t", "e", "d", " ", "o", "u", "t">>)
       /\ PhoneMatch(error.message) # <<>>
    THEN OptedOutError(PhoneMatch(error.message))
    ELSE IF HasMetadata(error)
    THEN SMSError(IF error.message # <<>> THEN error.message ELSE <<"S", "M", "S", " ", "r", "e", "q", "u", "e", "s", "t", " ", "f", "a", "i", "l", "e", "d">>,
                  IF error.name # <<>> THEN error.name ELSE <<"U", "n", "k", "n", "o", "w", "n">>,
                  IF Truthy(error.metadata.requestId) THEN error.metadata.requestId.s
                  ELSE <<"u", "n", "k", "n", "o", "w", "n">>,
                  error.throttling)
    ELSE error

\* new SendTextMessageCommand({...}) of send.
SendTextMessageCommand(options) ==
    [DestinationPhoneNumber |-> options.to,
     MessageBody |-> options.message,
     MessageType |-> IF Truthy(options.messageType) THEN options.messageType
                     ELSE JsString(<<"T", "R", "A", "N", "S", "A", "C", "T", "I", "O", "N", "A", "L">>),
     OriginationIdentity |-> options.from,
     ConfigurationSetName |-> options.configurationSetName,
     Context |-> options.context]

\* How a promise settles.
Fulfilled(value) == [state |-> "fulfilled", value |-> value]

\* send, from the answer of the transport on: the try block of
\* client.ts:120-137.
sendAfterTransport(options, reply) ==
    IF reply.state = "rejected" THEN Rejected(handleSMSError(reply.error))
    ELSE IF ~Truthy(reply.value.MessageId)
    THEN Rejected(handleSMSError(
             NativeError(<<"I", "n", "v", "a", "l", "i", "d", " ", "r", "e", "s", "p", "o", "n", "s", "e", " ", "f", "r", "o", "m", " ", "S", "M", "S", " ", "s", "e", "r", "v", "i", "c", "e", ":", " ", "m", "i", "s", "s", "i", "n", "g", " ", "M", "e", "s", "s", "a", "g", "e", "I", "d">>)))
    ELSE Fulfilled([messageId |-> reply.value.MessageId.s,
                    status |-> "QUEUED",
                    to |-> options.to.s,
                    from |-> IF Truthy(options.from) THEN options.from.s ELSE <<"d", "e", "f", "a", "u", "l", "t">>,
                    segments |-> calculateSegments(options.message.s)])

\* The options sendBatch calls send with for a message (client.ts:171-178).
SendOptionsOf(options, msg) ==
    [to |-> msg.to,
     message |-> msg.message,
     from |-> options.from,
     messageType |-> options.messageType,
     context |-> msg.context,
     configurationSetName |-> options.configurationSetName]

\* error instanceof Error ? error.message : 'Unknown error', lacking the text.
errorMessageUnknown(error) == <<"U", "n", "k", "n", "o", "w", "n", " ", "e", "r", "r", "o", "r">>

\* error instanceof Error ? error.message : 'Unknown error'
errorMessage(error) ==
    IF error.t = "error" THEN error.message ELSE <<"U", "n", "k", "n", "o", "w", "n", " ", "e", "r", "r", "o", "r">>

\* The entry sendBatch pushes for a message once its send has settled.
BatchMessageResult(msg, settlement) ==
    IF settlement.state = "fulfilled"
    THEN [to |-> msg.to.s, messageId |-> JsString(settlement.value.messageId),
          status |-> "QUEUED", error |-> JsUndefined]
    ELSE [to |-> msg.to.s, messageId |-> JsUndefined,
          status |-> "FAILED", error |-> JsString(errorMessage(settlement.error))]

\* ---- the inputs ----

\* Phone numbers: none, one without the +, two in E.164 format.
SmsPhones ==
    { JsString(<<>>), JsString(<<"4", "1", "5", "5", "5", "5", "1", "2", "3", "4">>),
      JsString(<<"+", "1", "4", "1", "5", "5", "5", "5", "1", "2", "3", "4">>), JsString(<<"+", "4", "4", "2", "0", "7", "1", "2", "3", "4", "5", "6", "7">>) }

\* Message texts: none, a short one, one over the limit.
SmsTexts ==
    { JsString(<<>>), JsString(<<"H", "i">>),
      JsString([k \in 1..(MaxMessageLength + 1) |-> "a"]) }

SmsMessages == { [to |-> to, message |-> text, context |-> JsUndefined] :
                    to \in SmsPhones, text \in SmsTexts }

\* Every sequence of at most n messages.
RECURSIVE SmsLists(_)
SmsLists(n) ==
    IF n = 0 THEN { <<>> }
    ELSE LET shorter == SmsLists(n - 1)
         IN  shorter \cup { Append(l, m) : l \in { s \in shorter : Len(s) = n - 1 },
                                           m \in SmsMessages }

\* The sender: none, a pool id, a number in E.164 format, a bad number.
SmsFroms ==
    { JsUndefined, JsString(<<"p", "o", "o", "l", "-", "1">>), JsString(<<"+", "1", "4", "1", "5", "5", "5", "5", "0", "0", "0", "0">>), JsString(<<"+", "1">>) }

\* The message type: none, one of the two allowed, one that is not.
SmsTypes == { JsUndefined, JsString(<<"P", "R", "O", "M", "O", "T", "I", "O", "N", "A", "L">>), JsString(<<"M", "A", "R", "K", "E", "T", "I", "N", "G">>) }

SmsBatchCalls ==
    { [messages |-> JsUndefined, from |-> JsUndefined, messageType |-> JsUndefined,
       configurationSetName |-> JsUndefined] }
    \cup { [messages |-> JsArray(l), from |-> from, messageType |-> type,
            configurationSetName |-> JsUndefined] :
             l \in SmsLists(MaxSms), from \in SmsFroms, type \in SmsTypes }

\* Answers of the transport: a MessageId, no MessageId, exceptions of the
\* SDK (a throttling, one without message and name, an opt-out with and
\* without the number), a network failure.
SmsReplies ==
    { Fulfilled([MessageId |-> JsString(<<"m", "s", "g", "-", "1">>)]),
      Fulfilled([MessageId |-> JsUndefined]),
      Rejected(SdkException(<<"T", "h", "r", "o", "t", "t", "l", "i", "n", "g", "E", "x", "c", "e", "p", "t", "i", "o", "n">>, <<"R", "a", "t", "e", " ", "e", "x", "c", "e", "e", "d", "e", "d">>,
                            JsString(<<"r", "e", "q", "-", "1">>), TRUE)),
      Rejected(SdkException(<<>>, <<>>, JsUndefined, FALSE)),
      Rejected(SdkException(<<"C", "o", "n", "f", "l", "i", "c", "t", "E", "x", "c", "e", "p", "t", "i", "o", "n">>,
                            <<"D", "e", "s", "t", "i", "n", "a", "t", "i", "o", "n", " ", "+", "1", "4", "1", "5", "5", "5", "5", "1", "2", "3", "4", " ", "h", "a", "s", " ", "o", "p", "t", "e", "d", " ", "o", "u", "t">>,
                            JsString(<<"r", "e", "q", "-", "2">>), FALSE)),
      Rejected(SdkException(<<"C", "o", "n", "f", "l", "i", "c", "t", "E", "x", "c", "e", "p", "t", "i", "o", "n">>, <<"D", "e", "s", "t", "i", "n", "a", "t", "i", "o", "n", " ", "h", "a", "s", " ", "o", "p", "t", "e", "d", " ", "o", "u", "t">>,
                            JsString(<<"r", "e", "q", "-", "3">>), FALSE)),
      Rejected(NativeError(<<"s", "o", "c", "k", "e", "t", " ", "h", "a", "n", "g", " ", "u", "p">>)) }

\* Readings of Date.now().
SmsClock == { 1700, 1701 }

\* ---- the call ----

SmsMessagesGiven == smsOptions.value.messages.items

\* sendBatch is called: validateBatchOptions (client.ts:161).
SmsValidate ==
    /\ smsPc = "called"
    /\ LET v == validateBatchOptions(smsOptions.value)
       IN  IF v.threw
           THEN /\ smsOutcome' = Rejected(v.error)
                /\ smsPc' = "done"
           ELSE /\ smsPc' = "loop"
                /\ UNCHANGED smsOutcome
    /\ UNCHANGED <<smsOptions, smsIndex, smsResults, smsQueued, smsFailed, smsSends, smsWire>>
    /\ UNCHANGED <<batchVars, eventVars, listVars, inboxVars, mimeVars, pairVars>>

\* The loop takes the next message and calls send (client.ts:169-178):
\* send validates its options; on a failure its promise rejects and the
\* catch block records it (183-190), otherwise the command goes to the
\* transport (108-121).
SmsSend ==
    /\ smsPc = "loop"
    /\ smsIndex < Len(SmsMessagesGiven)
    /\ LET msg == SmsMessagesGiven[smsIndex + 1]
           options == SendOptionsOf(smsOptions.value, msg)
           v == validateSendOptions(options)
       IN  IF v.threw
           THEN /\ smsSends' = Append(smsSends, [options |-> options,
                                                 settled |-> Rejected(v.error)])
                /\ smsResults' = Append(smsResults,
                                        BatchMessageResult(msg, Rejected(v.error)))
                /\ smsFailed' = smsFailed + 1
                /\ smsIndex' = smsIndex + 1
                /\ UNCHANGED <<smsPc, smsWire>>
           ELSE /\ smsSends' = Append(smsSends, [options |-> options, settled |-> Pending])
                /\ smsWire' = Append(smsWire, SendTextMessageCommand(options))
                /\ smsPc' = "awaiting"
                /\ UNCHANGED <<smsResults, smsFailed, smsIndex>>
    /\ UNCHANGED <<smsOptions, smsQueued, smsOutcome>>
    /\ UNCHANGED <<batchVars, eventVars, listVars, inboxVars, mimeVars, pairVars>>

\* The transport answers: send settles (client.ts:121-137) and sendBatch
\* records the message as QUEUED or FAILED (180-190).
SmsSettle ==
    /\ smsPc = "awaiting"
    /\ \E reply \in SmsReplies :
        LET msg == SmsMessagesGiven[smsIndex + 1]
            settlement == sendAfterTransport(smsSends[Len(smsSends)].options, reply)
        IN  /\ smsSends' = [smsSends EXCEPT ![Len(smsSends)].settled = settlement]
            /\ smsResults' = Append(smsResults, BatchMessageResult(msg, settlement))
            /\ smsQueued' = IF settlement.state = "fulfilled" THEN smsQueued + 1
                            ELSE smsQueued
            /\ smsFailed' = IF settlement.state = "fulfilled" THEN smsFailed
                            ELSE smsFailed + 1
    /\ smsIndex' = smsIndex + 1
    /\ smsPc' = "loop"
    /\ UNCHANGED <<smsOptions, smsOutcome, smsWire>>
    /\ UNCHANGED <<batchVars, eventVars, listVars, inboxVars, mimeVars, pairVars>>

\* The loop is over: the result (client.ts:194-200).
SmsReturn ==
    /\ smsPc = "loop"
    /\ smsIndex = Len(SmsMessagesGiven)
    /\ \E now \in SmsClock :
        smsOutcome' = Fulfilled([batchId |-> <<"b", "a", "t", "c", "h", "-">> \o NumberToString(now),
                                 total |-> Len(SmsMessagesGiven),
                                 queued |-> smsQueued,
                                 failed |-> smsFailed,
                                 results |-> smsResults])
    /\ smsPc' = "done"
    /\ UNCHANGED <<smsOptions, smsIndex, smsResults, smsQueued, smsFailed, smsSends, smsWire>>
    /\ UNCHANGED <<batchVars, eventVars, listVars, inboxVars, mimeVars, pairVars>>

InitSms ==
    /\ BatchIdle
    /\ EventsIdle
    /\ ListIdle
    /\ InboxIdle
    /\ MimeIdle
    /\ PairIdle
    /\ smsOptions \in { [state |-> "given", value |-> o] : o \in SmsBatchCalls }
    /\ smsPc = "called"
    /\ smsIndex = 0
    /\ smsResults = <<>>
    /\ smsQueued = 0
    /\ smsFailed = 0
    /\ smsOutcome = [state |-> "none"]
    /\ smsSends = <<>>
    /\ smsWire = <<>>

NextSms == SmsValidate \/ SmsSend \/ SmsSettle \/ SmsReturn

SpecSms == InitSms /\ [][NextSms]_vars

\* The batch validation has passed.
SmsValidated ==
    smsPc \in { "loop", "awaiting" } \/ (smsPc = "done" /\ smsOutcome.state = "fulfilled")

\* The calls of send so far are for the first messages of the batch, one
\* call for each, in their order.
SendsFollowMessages ==
    /\ Len(smsSends) <= Len(SmsMessagesGiven)
    /\ \A i \in 1..Len(smsSends) :
        /\ smsSends[i].options.to = SmsMessagesGiven[i].to
        /\ smsSends[i].options.message = SmsMessagesGiven[i].message
    /\ Len(smsWire) <= Len(smsSends)

\* Every send that has settled has its entry at its position: QUEUED with
\* the message id, or FAILED with the message of the error send threw.
ResultsFollowSends ==
    /\ Len(smsResults) = Len(smsSends) - (IF smsPc = "awaiting" THEN 1 ELSE 0)
    /\ \A i \in 1..Len(smsResults) :
        /\ smsResults[i].to = SmsMessagesGiven[i].to.s
        /\ IF smsSends[i].settled.state = "fulfilled"
           THEN /\ smsResults[i].status = "QUEUED"
                /\ smsResults[i].messageId = JsString(smsSends[i].settled.value.messageId)
           ELSE /\ smsSends[i].settled.state = "rejected"
                /\ smsResults[i].status = "FAILED"
                /\ smsResults[i].error = JsString(smsSends[i].settled.error.message)

\* The result counts what was recorded, for every message of the batch.
SmsCountsAddUp ==
    smsOutcome.state = "fulfilled" =>
        LET r == smsOutcome.value
            n == Len(SmsMessagesGiven)
        IN  /\ Len(smsSends) = n
            /\ r.total = n
            /\ r.queued + r.failed = n
            /\ Len(r.results) = n
            /\ r.results = smsResults
            /\ r.queued = Cardinality({ i \in 1..n : r.results[i].status = "QUEUED" })
            /\ r.failed = Cardinality({ i \in 1..n : r.results[i].status = "FAILED" })

\* C28: once the batch validation of WrapsSMS.sendBatch has passed, send is
\* called for every message once, in the order of the input; the result has
\* total = number of messages = queued + failed = length of results, and
\* results[i].to is messages[i].to; a send that fails is recorded as FAILED
\* with the message of its error, and the sends after it are still made.
C28_EveryMessageOnce ==
    SmsValidated => (SendsFollowMessages /\ ResultsFollowSends /\ SmsCountsAddUp)

\* Two messages: the first is refused by the transport (opted out), the
\* second is queued.
C28_Witness ==
    /\ smsPc = "done"
    /\ smsOutcome.state = "fulfilled"
    /\ smsOutcome.value.total = 2
    /\ smsOutcome.value.queued = 1
    /\ smsOutcome.value.failed = 1
    /\ Len(smsWire) = 2
    /\ smsOutcome.value.results[1].status = "FAILED"
    /\ smsOutcome.value.results[1].to = <<"+", "4", "4", "2", "0", "7", "1", "2", "3", "4", "5", "6", "7">>
    /\ smsOutcome.value.results[1].error =
           JsString(<<"P", "h", "o", "n", "e", " ", "n", "u", "m", "b", "e", "r", " ", "+", "1", "4", "1", "5", "5", "5", "5", "1", "2", "3", "4", " ", "h", "a", "s", " ", "o", "p", "t", "e", "d", " ", "o", "u", "t", " ", "o", "f", " ", "r", "e", "c", "e", "i", "v", "i", "n", "g", " ", "m", "e", "s", "s", "a", "g", "e", "s">>)
    /\ smsOutcome.value.results[2].status = "QUEUED"
    /\ smsOutcome.value.results[2].to = <<"+", "1", "4", "1", "5", "5", "5", "5", "1", "2", "3", "4">>

(***************************************************************************)
(* Two sendBatch calls on one client (batch.ts:169-215), each at its own   *)
(* place, taking turns at every await.  calls[c] holds what activation c   *)
(* has as parameters and locals, accum the allResults arrays, wire what    *)
(* the one client was given.                                               *)
(***************************************************************************)
Activations == {1, 2}

\* The recipients of the second call come after every recipient the first
\* call can have.
SecondCallBase == MAX_ENTRIES + MaxOver

\* n valid entries to the recipients after base.
EntriesFrom(base, n) == [i \in 1..n |-> HtmlEntry(base + i)]

\* What the first caller passes: no entry, two entries, one more than a
\* window, a list whose last entry has no content.
FirstCallEntries ==
    { <<>>, EntriesFrom(0, 2), EntriesFrom(0, CHUNK_SIZE + 1),
      ListWith(2, 2, [to |-> 2, subject |-> "Hi", html |-> "", text |-> "",
                      react |-> "none"]) }

\* What the second caller passes: one entry, two more than a window, one
\* more than allowed.
SecondCallEntries ==
    { EntriesFrom(SecondCallBase, 1), EntriesFrom(SecondCallBase, CHUNK_SIZE + 2),
      EntriesFrom(SecondCallBase, MAX_ENTRIES + 1) }

\* The answers of the provider to a command of n entries that the two
\* calls are followed with.
PairReplies(n) ==
    { r \in Replies(n) :
        \/ r.kind = "sdk_error"
        \/ r.kind = "ok" /\ r.len = n /\ r.pattern \in {"success", "alternate"}
        \/ r.kind = "ok" /\ r.len = n + 1 /\ r.pattern = "success" }

\* An allResults that is one array of the module, used by every call.
allResultsShared(c) == 1

\* const allResults = [] is made in the body of sendBatch (batch.ts:186):
\* every activation has its own.
allResultsOf(c) == c

\* const chunk = resolved.slice(offset, offset + CHUNK_SIZE) of activation c.
ChunkOf(c) == Slice(calls[c].resolved, calls[c].offset, calls[c].offset + CHUNK_SIZE)

\* Activation c up to its loop (batch.ts:173-186).
PairValidate(c) ==
    /\ calls[c].pc = "start"
    /\ LET countError == EntryCountError(calls[c].entries)
           r == resolveEntries(calls[c].entries)
       IN  IF countError # "none"
           THEN /\ calls' = [calls EXCEPT ![c].pc = "done",
                                          ![c].outcome = Rejected(countError)]
                /\ UNCHANGED accum
           ELSE IF r.threw # "none"
           THEN /\ calls' = [calls EXCEPT ![c].pc = "done",
                                          ![c].outcome = Rejected(r.threw)]
                /\ UNCHANGED accum
           ELSE /\ calls' = [calls EXCEPT ![c].pc = "loop",
                                          ![c].resolved = r.resolved,
                                          ![c].offset = 0]
                /\ accum' = [accum EXCEPT ![allResultsOf(c)] = <<>>]
    /\ UNCHANGED wire
    /\ UNCHANGED <<batchVars, eventVars, listVars, inboxVars, mimeVars, smsVars>>

\* Activation c hands the command of its chunk to the client
\* (batch.ts:84-121) and awaits the answer.
PairSendCommand(c) ==
    /\ calls[c].pc = "loop"
    /\ calls[c].offset < Len(calls[c].resolved)
    /\ wire' = Append(wire, [call |-> c, offset |-> calls[c].offset,
                             to |-> [k \in 1..Len(ChunkOf(c)) |-> ChunkOf(c)[k].to]])
    /\ calls' = [calls EXCEPT ![c].pc = "awaiting"]
    /\ UNCHANGED accum
    /\ UNCHANGED <<batchVars, eventVars, listVars, inboxVars, mimeVars, smsVars>>

\* The client answers the command of activation c (batch.ts:121-205).
PairSettle(c) ==
    /\ calls[c].pc = "awaiting"
    /\ \E reply \in PairReplies(Len(ChunkOf(c))) :
          LET r == ChunkResults(ChunkOf(c), calls[c].offset, reply)
          IN  IF r.rejects # "none"
              THEN /\ calls' = [calls EXCEPT ![c].pc = "done",
                                             ![c].outcome = Rejected(r.rejects),
                                             ![c].replies = Append(@, reply)]
                   /\ UNCHANGED accum
              ELSE /\ calls' = [calls EXCEPT ![c].pc = "loop",
                                             ![c].offset = NextOffset(@),
                                             ![c].replies = Append(@, reply)]
                   /\ accum' = [accum EXCEPT ![allResultsOf(c)] = @ \o r.pushed]
    /\ UNCHANGED wire
    /\ UNCHANGED <<batchVars, eventVars, listVars, inboxVars, mimeVars, smsVars>>

\* The loop of activation c is over (batch.ts:207-214).
PairReturn(c) ==
    /\ calls[c].pc = "loop"
    /\ calls[c].offset >= Len(calls[c].resolved)
    /\ calls' = [calls EXCEPT ![c].pc = "done",
                              ![c].outcome = BatchResult(accum[allResultsOf(c)])]
    /\ UNCHANGED <<accum, wire>>
    /\ UNCHANGED <<batchVars, eventVars, listVars, inboxVars, mimeVars, smsVars>>

\* An activation that has just been called.
Activation(es) ==
    [entries |-> es, pc |-> "start", resolved |-> <<>>, offset |-> 0,
     outcome |-> NoCall, replies |-> <<>>]

InitPair ==
    /\ BatchIdle
    /\ EventsIdle
    /\ ListIdle
    /\ InboxIdle
    /\ MimeIdle
    /\ SmsIdle
    /\ \E first \in FirstCallEntries, second \in SecondCallEntries :
          calls = << Activation(first), Activation(second) >>
    /\ accum = << <<>>, <<>> >>
    /\ wire = <<>>

NextPair ==
    \E c \in Activations :
        PairValidate(c) \/ PairSendCommand(c) \/ PairSettle(c) \/ PairReturn(c)

SpecPair == InitPair /\ [][NextPair]_vars

\* ---- one call alone ----

\* The loop of sendBatch from offset on, given the answers of the provider
\* to its commands in order: what the call settles with.
RECURSIVE AloneLoop(_, _, _, _)
AloneLoop(res, off, all, answers) ==
    IF off >= Len(res) THEN BatchResult(all)
    ELSE LET r == ChunkResults(Slice(res, off, off + CHUNK_SIZE), off, Head(answers))
         IN  IF r.rejects # "none" THEN Rejected(r.rejects)
             ELSE AloneLoop(res, NextOffset(off), all \o r.pushed, Tail(answers))

\* What sendBatch, called alone with the entries, settles with when the
\* provider gives these answers.
AloneOutcome(es, answers) ==
    IF EntryCountError(es) # "none" THEN Rejected(EntryCountError(es))
    ELSE IF resolveEntries(es).threw # "none" THEN Rejected(resolveEntries(es).threw)
    ELSE AloneLoop(resolveEntries(es).resolved, 0, <<>>, answers)

\* The single call of SpecBatch settles with AloneOutcome.
AloneIsSingleCall ==
    pc = "done" => outcome = AloneOutcome(entries, sesReplies)

\* Every command the client was given carries the recipients of one window
\* of the call that sent it, and of no other.
WireOfOwnEntries ==
    \A w \in 1..Len(wire) :
        LET c == wire[w].call
            own == Slice(calls[c].entries, wire[w].offset, wire[w].offset + CHUNK_SIZE)
        IN  wire[w].to = [k \in 1..Len(own) |-> own[k].to]

\* C30: of two sendBatch calls that take turns on one client, each settles
\* with what it would settle with alone for the answers the provider gave
\* to its own commands, and each command carries entries of its own call.
C30_CallsDoNotInterfere ==
    /\ \A c \in Activations :
          calls[c].pc = "done" =>
              calls[c].outcome = AloneOutcome(calls[c].entries, calls[c].replies)
    /\ WireOfOwnEntries

\* Both calls done, their commands interleaved on the client (1, 2, 1, 2),
\* with different results: 51 entries that all went through, and 52 of
\* which the first window failed as a whole.
C30_Witness ==
    /\ calls[1].pc = "done"
    /\ calls[2].pc = "done"
    /\ [w \in 1..Len(wire) |-> wire[w].call] = <<1, 2, 1, 2>>
    /\ calls[1].outcome.state = "fulfilled"
    /\ calls[1].outcome.successCount = CHUNK_SIZE + 1
    /\ calls[1].outcome.failureCount = 0
    /\ calls[2].outcome.state = "fulfilled"
    /\ Len(calls[2].outcome.results) = CHUNK_SIZE + 2
    /\ calls[2].outcome.failureCount = CHUNK_SIZE
    /\ calls[2].outcome.successCount = 2

============================================================================
